---- MODULE Spec2Model ----
(***************************************************************************)
(* CO2 emissions dashboard: the data loader (src/data_processing/loader),  *)
(* the page render pass that consumes it, the aggregator                   *)
(* (src/data_processing/aggregator) and the metrics (src/utils/metrics).   *)
(*                                                                         *)
(* Spec     the four st.cache_data loaders, the files they read and the    *)
(*          start of a page render pass.  The loaders share no state (each *)
(*          has its own cache and its own file), so a behaviour follows    *)
(*          one loader, chosen in Init.                                    *)
(* SpecAgg  the aggregator functions applied to bounded tables.            *)
(* SpecRegion         aggregate_by_region on tables of three countries.    *)
(* SpecSrc            the per-source functions on tables with source       *)
(*                    columns.                                             *)
(* SpecMetrics        calculate_percent_change and calculate_cagr.         *)
(* SpecMovingAverage  calculate_moving_average.                            *)
(* SpecIntensity      calculate_emission_intensity.                        *)
(* SpecContrib        calculate_top_contributors.                          *)
(* SpecReduction      calculate_reduction_needed.                          *)
(* SpecChart          create_stacked_bar_by_source and aggregate_by_source *)
(*                    on one per-source table.                             *)
(* SpecMemo           st.cache_data around aggregate_by_year and           *)
(*                    calculate_cagr while the table changes.              *)
(* SpecSidebar        the year widgets of components/sidebar.              *)
(* SpecFilters        add_multi_country_selector of components/filters.    *)
(***************************************************************************)
EXTENDS Integers, Sequences, FiniteSets, TLC

VARIABLES fn, fs, cache, last, pass, aggDf, aggColumn, aggOut

loaderVars == <<fn, fs, cache, last, pass>>
aggVars == <<aggDf, aggColumn, aggOut>>
vars == <<fn, fs, cache, last, pass, aggDf, aggColumn, aggOut>>

(* ------------------------------ bounds -------------------------------- *)
\* rows of a CSV file read by a loader
MaxRows == 2
\* rows of a table handed to an aggregator function
MaxAggRows == 3
\* rows of a table handed to aggregate_by_region alone
MaxRegionRows == 4
\* rows of a table handed to a per-source function
MaxSrcRows == 2
\* rows of a table handed to a metric
MaxMetricRows == 3
\* rows of a table handed to add_multi_country_selector
MaxFilterRows == 3
\* rows of a table handed to a sidebar widget
MaxSidebarRows == 2
\* rows of a table handed to a memoized function
MaxMemoRows == 1
\* entries an st.cache_data store of the aggregator and metrics holds
MaxMemoEntries == 2
\* rows of a table handed to calculate_top_contributors
MaxContribRows == 3
\* rows of a table handed to calculate_emission_intensity
MaxIntensityRows == 2

(* ------------------------------ config.py ----------------------------- *)
TOTAL_EMISSIONS_FILE == "data/GCB2022v27_MtCO2_flat.csv"
PER_CAPITA_EMISSIONS_FILE == "data/GCB2022v27_percapita_flat.csv"
SOURCES_FILE == "data/GCB2022v27_sources_flat.csv"
TOTAL_EMISSIONS_METADATA == "data/GCB2022v27_MtCO2_flat_metadata.json"
PER_CAPITA_METADATA == "data/GCB2022v27_percapita_flat_metadata.json"
DEFAULT_START_YEAR == 1990
DEFAULT_END_YEAR == 2021

(* ------------------------------ values -------------------------------- *)
\* A CSV cell of the Year column as read_csv delivers it: an integer, or a
\* text that is no number (a missing value fails the cast the same way).
IntCell(n) == [k |-> "int", v |-> n]
TextCell == [k |-> "text", v |-> 0]
YearCells == {IntCell(DEFAULT_START_YEAR), TextCell}

CsvColumns == {"Country", "ISO 3166-1 alpha-3", "Year", "Total"}

\* A table as the loader sees it: its column names and its Year column.
\* pd.DataFrame() is the table with no column and no row.
EmptyTable == [cols |-> {}, year |-> <<>>]

\* A parsed JSON document: a set of key/value pairs.
JsonPairs == {<<"title", "GCB2022">>, <<"unit", "MtCO2">>}
EmptyMapping == {}

NoDoc == {}
SeqsUpTo(S, n) == UNION {[1..m -> S] : m \in 0..n}

\* What a path can hold.  kind: "absent" (os.path.exists is false),
\* "garbled" (exists, the parser or open() raises), "csv", "json".
Absent == [kind |-> "absent", cols |-> {}, year |-> <<>>, doc |-> NoDoc]
Garbled == [kind |-> "garbled", cols |-> {}, year |-> <<>>, doc |-> NoDoc]
CsvFiles ==
  {[kind |-> "csv", cols |-> c, year |-> y, doc |-> NoDoc] :
     c \in SUBSET CsvColumns, y \in SeqsUpTo(YearCells, MaxRows)}
CsvContents ==
  {Absent, Garbled} \cup {f \in CsvFiles : "Year" \notin f.cols => f.year = <<>>}
JsonContents ==
  {Absent, Garbled} \cup
  {[kind |-> "json", cols |-> {}, year |-> <<>>, doc |-> d] : d \in SUBSET JsonPairs}

(* ------------------- outcomes of a function call ---------------------- *)
\* An st.error / st.warning element: its level, its fixed text and the
\* value formatted into it (a path, a column name, an exception).
Msg(level, text, subject) == [level |-> level, text |-> text, subject |-> subject]

\* A call either returns a value, having emitted st elements, or raises.
Return(v, msgs) == [value |-> v, msgs |-> msgs, exc |-> "none"]
Raise(e) == [value |-> EmptyTable, msgs |-> <<>>, exc |-> e]

(* ------------------ src/data_processing/loader.py --------------------- *)
CsvLoaders == {"load_emissions_data", "load_per_capita_data", "load_sources_data"}
Loaders == CsvLoaders \cup {"load_metadata"}
MetadataPaths == {TOTAL_EMISSIONS_METADATA, PER_CAPITA_METADATA}

\* The file each table loader reads.
ConfigFile(f) ==
  CASE f = "load_emissions_data" -> TOTAL_EMISSIONS_FILE
    [] f = "load_per_capita_data" -> PER_CAPITA_EMISSIONS_FILE
    [] f = "load_sources_data" -> SOURCES_FILE

\* required_columns of each table loader, in the order the loop tests them.
required_columns_same(f) == <<"Country", "ISO 3166-1 alpha-3", "Year", "Total">>
required_columns(f) ==
  IF f = "load_sources_data"
  THEN <<"Country", "ISO 3166-1 alpha-3", "Year">>
  ELSE <<"Country", "ISO 3166-1 alpha-3", "Year", "Total">>

\* The text of the except branch of each loader.
ErrorLabel(f) ==
  CASE f = "load_emissions_data" -> "Error loading emissions data"
    [] f = "load_per_capita_data" -> "Error loading per capita data"
    [] f = "load_sources_data" -> "Error loading sources data"
    [] f = "load_metadata" -> "Error loading metadata"

\* os.path.exists(path)
path_exists(c) == c.kind # "absent"

\* The branch taken when the file does not exist.
file_not_found_silent(path) == Return(EmptyTable, <<>>)
file_not_found(path) ==
  Return(EmptyTable, <<Msg("error", "Error: Data file not found at", path)>>)

\* for col in required_columns: if col not in df.columns -> st.error, return
MissingAt(req, cols) == {i \in DOMAIN req : req[i] \notin cols}
FirstMissing(req, cols) ==
  req[CHOOSE i \in MissingAt(req, cols) : \A j \in MissingAt(req, cols) : i <= j]
column_not_found(col) ==
  Return(EmptyTable, <<Msg("error", "Error: Required column not found in data", col)>>)

\* df['Year'].astype(int): every cell is cast; a text or a missing value
\* makes the whole cast raise ValueError.
astype_int(col) ==
  IF \A i \in DOMAIN col : col[i].k = "int"
  THEN [ok |-> TRUE, year |-> [i \in DOMAIN col |-> col[i].v]]
  ELSE [ok |-> FALSE, year |-> <<>>]

\* The try block of a table loader on the file content c.
LoadTry(f, c) ==
  IF ~path_exists(c) THEN file_not_found(ConfigFile(f))
  ELSE IF c.kind # "csv" THEN Raise("ParserError")
  ELSE IF MissingAt(required_columns(f), c.cols) # {}
       THEN column_not_found(FirstMissing(required_columns(f), c.cols))
  ELSE LET cast == astype_int(c.year)
       IN  IF cast.ok
           THEN Return([cols |-> c.cols, year |-> cast.year], <<>>)
           ELSE Raise("ValueError")

\* except Exception as e: st.error(...); return pd.DataFrame()
except_reraise(f, r) == r
except_Exception(f, r) ==
  IF r.exc # "none"
  THEN Return(EmptyTable, <<Msg("error", ErrorLabel(f), r.exc)>>)
  ELSE r

load_emissions_data(c) ==
  except_Exception("load_emissions_data", LoadTry("load_emissions_data", c))
load_per_capita_data(c) ==
  except_Exception("load_per_capita_data", LoadTry("load_per_capita_data", c))
load_sources_data(c) ==
  except_Exception("load_sources_data", LoadTry("load_sources_data", c))

\* load_metadata(metadata_file): warnings instead of errors, {} on failure.
metadata_level_error == "error"
metadata_level == "warning"
MetadataTry(path, c) ==
  IF ~path_exists(c)
  THEN Return(EmptyMapping, <<Msg(metadata_level, "Metadata file not found at", path)>>)
  ELSE IF c.kind # "json" THEN Raise("JSONDecodeError")
  ELSE Return(c.doc, <<>>)
load_metadata(path, c) ==
  LET r == MetadataTry(path, c)
  IN  IF r.exc # "none"
      THEN Return(EmptyMapping, <<Msg(metadata_level, ErrorLabel("load_metadata"), r.exc)>>)
      ELSE r

\* The body of loader f for cache key k, run on what the file system holds.
FileOf(f, k) == IF f = "load_metadata" THEN k ELSE ConfigFile(f)
Body(f, k, files) ==
  CASE f = "load_emissions_data" -> load_emissions_data(files[FileOf(f, k)])
    [] f = "load_per_capita_data" -> load_per_capita_data(files[FileOf(f, k)])
    [] f = "load_sources_data" -> load_sources_data(files[FileOf(f, k)])
    [] f = "load_metadata" -> load_metadata(k, files[FileOf(f, k)])

(* --------------------------- st.cache_data ---------------------------- *)
\* One cache per decorated function, keyed by the call's arguments: the
\* table loaders take none, load_metadata takes the path.  An entry keeps
\* the returned value and the st elements to replay; a call that raises
\* stores nothing.
NoArgs == "()"
CacheKeys(f) == IF f = "load_metadata" THEN MetadataPaths ELSE {NoArgs}
Paths(f) == IF f = "load_metadata" THEN MetadataPaths ELSE {ConfigFile(f)}
Contents(f) == IF f = "load_metadata" THEN JsonContents ELSE CsvContents
NoEntry == [set |-> FALSE, out |-> Return(EmptyTable, <<>>)]

\* @st.cache_data: [hit, out, entry'] of a call with cache entry e whose
\* body would produce r.
cache_data_off(e, r) == [hit |-> FALSE, out |-> r, entry |-> e]
cache_data(e, r) ==
  IF e.set
  THEN [hit |-> TRUE, out |-> e.out, entry |-> e]
  ELSE [hit |-> FALSE, out |-> r,
        entry |-> IF r.exc = "none" THEN [set |-> TRUE, out |-> r] ELSE e]

(* ----------------------- components/sidebar.py ------------------------ *)
SeqMin(q) == CHOOSE x \in {q[i] : i \in DOMAIN q} : \A i \in DOMAIN q : x <= q[i]
SeqMax(q) == CHOOSE x \in {q[i] : i \in DOMAIN q} : \A i \in DOMAIN q : x >= q[i]
Lower(a, b) == IF a <= b THEN a ELSE b
Higher(a, b) == IF a >= b THEN a ELSE b

\* st.sidebar.slider: the value the user leaves it at, or an API exception
\* when the default handed to it is outside [min_value, max_value].
slider(min_value, max_value, value, chosen) ==
  IF value < min_value \/ value > max_value
  THEN Raise("StreamlitAPIException")
  ELSE Return(chosen, <<>>)

\* The arguments add_year_range_selector hands to the "Start Year" slider of
\* a table with rows, and to the "End Year" slider once the first returned
\* start_year, with the config defaults.
start_slider(df) ==
  LET min_year == SeqMin(df.year)
      max_year == SeqMax(df.year)
  IN  [min_value |-> min_year, max_value |-> max_year,
       value |-> Higher(min_year, DEFAULT_START_YEAR)]
end_slider(df, start_year) ==
  LET max_year == SeqMax(df.year)
      default_end == Lower(max_year, DEFAULT_END_YEAR)
  IN  [min_value |-> start_year, max_value |-> max_year,
       value |-> Lower(default_end, max_year)]

\* add_year_range_selector(df) with the config defaults; sChosen and
\* eChosen are where the user leaves the two sliders.
add_year_range_selector(df, sChosen, eChosen) ==
  IF "Year" \notin df.cols THEN Raise("KeyError")
  ELSE IF df.year = <<>> THEN Raise("ValueError")
  ELSE LET s == start_slider(df)
           start == slider(s.min_value, s.max_value, s.value, sChosen)
       IN  IF start.exc # "none" THEN start
           ELSE LET e == end_slider(df, start.value)
                    end == slider(e.min_value, e.max_value, e.value, eChosen)
                IN  IF end.exc # "none" THEN end
                    ELSE Return(<<start.value, end.value>>, <<>>)

\* add_year_selector(df, default=config.DEFAULT_END_YEAR): years[-1] is
\* evaluated for the fallback even when it is not used.
add_year_selector(df, default, chosen) ==
  IF "Year" \notin df.cols THEN Raise("KeyError")
  ELSE IF df.year = <<>> THEN Raise("IndexError")
  ELSE Return(chosen, <<>>)

\* df[(df['Year'] >= start_year) & (df['Year'] <= end_year)]
filter_year_range(df, start_year, end_year) ==
  IF "Year" \notin df.cols THEN Raise("KeyError")
  ELSE Return([cols |-> df.cols,
               year |-> SelectSeq(df.year,
                          LAMBDA y : y >= start_year /\ y <= end_year)], <<>>)

(* ----------------------------- pages/*.py ----------------------------- *)
\* The pages whose main() loads only the total emissions table.
Pages == {"01_Global_Trends", "03_Emission_Sources"}

\* main() up to the filtering on Year, on the table df the loader gave:
\* the stage reached and the exception that ended the pass, if any.
PassOutcome(page, df, sChosen, eChosen, yChosen) ==
  LET range == add_year_range_selector(df, sChosen, eChosen)
      focus == IF page = "03_Emission_Sources"
               THEN add_year_selector(df, DEFAULT_END_YEAR, yChosen)
               ELSE Return(yChosen, <<>>)
  IN  IF range.exc # "none"
      THEN [page |-> page, stage |-> "add_year_range_selector", exc |-> range.exc]
      ELSE IF focus.exc # "none"
      THEN [page |-> page, stage |-> "add_year_selector", exc |-> focus.exc]
      ELSE LET filtered == filter_year_range(df, range.value[1], range.value[2])
           IN  [page |-> page, stage |-> "filtered", exc |-> filtered.exc]

\* What the user can leave a year widget at.
YearChoices(df) ==
  IF "Year" \in df.cols /\ df.year # <<>>
  THEN SeqMin(df.year)..SeqMax(df.year)
  ELSE {0}

(* ------------------- the loaders as a state machine ------------------- *)
NoCall == [key |-> "none", hit |-> FALSE, out |-> Return(EmptyTable, <<>>)]
NoPass == [page |-> "none", stage |-> "none", exc |-> "none"]
NoAggDf == [cols |-> {}, rows |-> <<>>]
NoAggOut ==
  [op |-> "none", year |-> 0, n |-> 0, periods |-> <<>>,
   out |-> Return(NoAggDf, <<>>)]

Init ==
  /\ fn \in Loaders
  /\ fs \in [Paths(fn) -> Contents(fn)]
  /\ cache = [k \in CacheKeys(fn) |-> NoEntry]
  /\ last = NoCall
  /\ pass = NoPass
  /\ aggDf = NoAggDf
  /\ aggColumn = "Total"
  /\ aggOut = NoAggOut

\* The environment creates, removes or rewrites the file at path p.
WriteFile(p, c) ==
  /\ c # fs[p]
  /\ fs' = [fs EXCEPT ![p] = c]
  /\ UNCHANGED <<fn, cache, last, pass>>
  /\ UNCHANGED aggVars

\* A call of the loader fn with the arguments k.
CallLoader(k) ==
  LET c == cache_data(cache[k], Body(fn, k, fs))
  IN  /\ cache' = [cache EXCEPT ![k] = c.entry]
      /\ last' = [key |-> k, hit |-> c.hit, out |-> c.out]
      /\ UNCHANGED <<fn, fs, pass>>
      /\ UNCHANGED aggVars

\* One render pass of a page: load, then the sidebar widgets, then the
\* filtering on Year.  An exception of the loader ends the pass too.
RenderPass(page) ==
  /\ fn = "load_emissions_data"
  /\ LET c == cache_data(cache[NoArgs], Body(fn, NoArgs, fs))
         df == c.out.value
     IN  /\ cache' = [cache EXCEPT ![NoArgs] = c.entry]
         /\ last' = [key |-> NoArgs, hit |-> c.hit, out |-> c.out]
         /\ IF c.out.exc # "none"
            THEN pass' = [page |-> page, stage |-> "load_emissions_data",
                          exc |-> c.out.exc]
            ELSE \E s \in YearChoices(df) : \E e \in YearChoices(df) :
                   \E y \in YearChoices(df) :
                     /\ s <= e
                     /\ pass' = PassOutcome(page, df, s, e, y)
  /\ UNCHANGED <<fn, fs>>
  /\ UNCHANGED aggVars

Next ==
  \/ \E p \in Paths(fn) : \E c \in Contents(fn) : WriteFile(p, c)
  \/ \E k \in CacheKeys(fn) : CallLoader(k)
  \/ \E page \in Pages : RenderPass(page)

Spec == Init /\ [][Next]_vars

(* ----------------- src/data_processing/aggregator.py ------------------ *)
\* A numeric cell: <<v>> holds v, <<>> is a missing value (NaN).
Num(v) == <<v>>
NaN == <<>>
IsNaN(x) == x = <<>>
Val(x) == x[1]

\* Tables handed to the aggregator: one row per (Country, Year) (section 3
\* of the specification), each with a Total that may be missing.  The ISO3
\* code is a function of the country.
AggCountries == {"United States", "Kosovo"}
Iso(country) ==
  IF country = "United States" THEN "USA"
  ELSE IF country = "China" THEN "CHN"
  ELSE "XKX"
AggYears == {2000, 2001}
AggValues == {NaN, Num(1), Num(2)}
AggRows == [Country : AggCountries, Year : AggYears, Total : AggValues]
AggCols == {"Country", "ISO 3166-1 alpha-3", "Year", "Total"}
\* The columns a caller may ask for: Total and Year are in every table with
\* columns, Coal is in none.
AggColumnArgs == {"Total", "Year", "Coal"}
EmptyFrame == [cols |-> {}, rows |-> <<>>]
UniqueKeys(rows) ==
  \A i, j \in DOMAIN rows :
     (rows[i].Country = rows[j].Country /\ rows[i].Year = rows[j].Year) => i = j
\* The tables with the columns cols and at most n rows out of rowSet.
TablesOf(cols, rowSet, n) ==
  {[cols |-> cols, rows |-> q] :
     q \in {r \in SeqsUpTo(rowSet, n) : UniqueKeys(r)}}
AggTables(n) == {EmptyFrame} \cup TablesOf(AggCols, AggRows, n)

\* df[column] of one row.
Cell(r, column) == IF column = "Year" THEN Num(r.Year) ELSE r[column]

\* df.empty: no row or no column.
df_empty(df) == df.cols = {} \/ df.rows = <<>>

\* if df.empty or column not in df.columns: return pd.DataFrame()
guard_empty_only(df, column) == df_empty(df)
guard(df, column) == df_empty(df) \/ column \notin df.cols

\* df[df['Year'] == year]
NoYear == 0
filter_year(df, year) ==
  IF year = NoYear THEN df
  ELSE [cols |-> df.cols, rows |-> SelectSeq(df.rows, LAMBDA r : r.Year = year)]

\* The keys of groupby('Year'): the distinct years, ascending (sort=True).
RECURSIVE Ascending(_)
Ascending(S) ==
  IF S = {} THEN <<>>
  ELSE LET m == CHOOSE x \in S : \A y \in S : x <= y
       IN  <<m>> \o Ascending(S \ {m})
RECURSIVE Appearance(_)
Appearance(q) ==
  IF q = <<>> THEN <<>>
  ELSE <<q[1]>> \o Appearance(SelectSeq(Tail(q), LAMBDA x : x # q[1]))
group_keys_unsorted(rows) == Appearance([i \in DOMAIN rows |-> rows[i].Year])
group_keys(rows) == Ascending({rows[i].Year : i \in DOMAIN rows})

\* .sum() of a group: missing values are skipped, an all-missing group is 0.
RECURSIVE column_sum(_, _)
column_last(rows, column) ==
  IF rows = <<>> \/ IsNaN(Cell(rows[Len(rows)], column)) THEN 0
  ELSE Val(Cell(rows[Len(rows)], column))
column_sum(rows, column) ==
  IF rows = <<>> THEN 0
  ELSE (IF IsNaN(Cell(rows[1], column)) THEN 0 ELSE Val(Cell(rows[1], column)))
       + column_sum(Tail(rows), column)

\* aggregate_by_year(df, column): reset_index() cannot insert the index Year
\* next to a value column that is itself called Year.
aggregate_by_year(df, column) ==
  IF guard(df, column) THEN Return(EmptyFrame, <<>>)
  ELSE IF "Year" \notin df.cols \/ column \notin df.cols THEN Raise("KeyError")
  ELSE IF column = "Year" THEN Raise("ValueError")
  ELSE LET keys == group_keys(df.rows)
       IN  Return([cols |-> {"Year", column},
                   rows |-> [i \in DOMAIN keys |->
                               [Year |-> keys[i],
                                value |-> column_sum(
                                   SelectSeq(df.rows, LAMBDA r : r.Year = keys[i]),
                                   column)]]], <<>>)

\* config.REGIONS, in the order of the dictionary.
REGIONS_overlap ==
  << [name |-> "North America", codes |-> {"USA", "CAN", "MEX"}],
     [name |-> "Europe", codes |-> {"DEU", "GBR", "FRA", "ITA", "ESP"}],
     [name |-> "Asia", codes |-> {"CHN", "IND", "JPN", "KOR", "IDN"}],
     [name |-> "Middle East", codes |-> {"SAU", "IRN", "ARE", "QAT", "KWT"}],
     [name |-> "Africa", codes |-> {"ZAF", "NGA", "EGY", "DZA", "MAR"}],
     [name |-> "South America", codes |-> {"BRA", "ARG", "COL", "CHL", "PER"}],
     [name |-> "Oceania", codes |-> {"AUS", "NZL", "USA"}] >>
REGIONS ==
  << [name |-> "North America", codes |-> {"USA", "CAN", "MEX"}],
     [name |-> "Europe", codes |-> {"DEU", "GBR", "FRA", "ITA", "ESP"}],
     [name |-> "Asia", codes |-> {"CHN", "IND", "JPN", "KOR", "IDN"}],
     [name |-> "Middle East", codes |-> {"SAU", "IRN", "ARE", "QAT", "KWT"}],
     [name |-> "Africa", codes |-> {"ZAF", "NGA", "EGY", "DZA", "MAR"}],
     [name |-> "South America", codes |-> {"BRA", "ARG", "COL", "CHL", "PER"}],
     [name |-> "Oceania", codes |-> {"AUS", "NZL"}] >>
\* The region names in the order groupby('Region') sorts them.
RegionOrder ==
  <<"Africa", "Asia", "Europe", "Middle East", "North America", "Oceania",
    "South America">>
NoRegion == "NaN"

\* region_map[country_code]: the loop overwrites, so the last region that
\* lists a code keeps it; a code in no region maps to a missing value.
region_map_keep_all(code) ==
  LET at == {i \in DOMAIN REGIONS : code \in REGIONS[i].codes}
  IN  IF at = {} THEN REGIONS[1].name
      ELSE REGIONS[CHOOSE i \in at : \A j \in at : j <= i].name
region_map(code) ==
  LET at == {i \in DOMAIN REGIONS : code \in REGIONS[i].codes}
  IN  IF at = {} THEN NoRegion
      ELSE REGIONS[CHOOSE i \in at : \A j \in at : j <= i].name

\* aggregate_by_region(df, column, year)
aggregate_by_region(df, column, year) ==
  IF guard(df, column) THEN Return(EmptyFrame, <<>>)
  ELSE IF column \notin df.cols THEN Raise("KeyError")
  ELSE LET rows == filter_year(df, year).rows
           mapped == SelectSeq(rows, LAMBDA r : region_map(Iso(r.Country)) # NoRegion)
           keys == SelectSeq(RegionOrder,
                     LAMBDA g : \E i \in DOMAIN mapped :
                                   region_map(Iso(mapped[i].Country)) = g)
       IN  Return([cols |-> {"Region", column},
                   rows |-> [i \in DOMAIN keys |->
                               [Region |-> keys[i],
                                value |-> column_sum(
                                   SelectSeq(mapped,
                                     LAMBDA r : region_map(Iso(r.Country)) = keys[i]),
                                   column)]]], <<>>)

\* df.sort_values(column, ascending=False): the rows that have a value come
\* first, larger values first, and the default sort (quicksort) is not
\* stable, so every order of the rows that tie is a possible result; the
\* rows with a missing value follow (na_position='last') in table order.
RowOrders(n) == {p \in [1..n -> 1..n] : \A i, j \in 1..n : p[i] = p[j] => i = j}
Descending(q, column) ==
  \A i, j \in DOMAIN q :
     i < j => \/ IsNaN(Cell(q[j], column))
              \/ /\ ~IsNaN(Cell(q[i], column))
                 /\ Val(Cell(q[i], column)) >= Val(Cell(q[j], column))
sort_values(rows, column) ==
  LET valued == SelectSeq(rows, LAMBDA r : ~IsNaN(Cell(r, column)))
      missing == SelectSeq(rows, LAMBDA r : IsNaN(Cell(r, column)))
  IN  {q \o missing :
         q \in {w \in {[i \in DOMAIN valued |-> valued[p[i]]] :
                          p \in RowOrders(Len(valued))} :
                  Descending(w, column)}}
head_all(rows, n) == rows
head(rows, n) == SubSeq(rows, 1, Lower(n, Len(rows)))

\* get_top_emitters(df, column, year, n): the set of possible results.
get_top_emitters(df, column, year, n) ==
  IF guard(df, column) THEN {Return(EmptyFrame, <<>>)}
  ELSE IF column \notin df.cols THEN {Raise("KeyError")}
  ELSE {Return([cols |-> df.cols, rows |-> head(q, n)], <<>>) :
          q \in sort_values(filter_year(df, year).rows, column)}

\* Country labels in the order Python sorts them.
CountryOrder == <<"Kosovo", "United States">>
Labels(rows) == [i \in DOMAIN rows |-> rows[i].Country]
Range(q) == {q[i] : i \in DOMAIN q}
PositionOf(q, x) == CHOOSE i \in DOMAIN q : q[i] = x

\* The index of current[column] / past[column]: the outer join of the two
\* Country indexes, sorted unless they are equal or one of them is empty.
outer_join(cur, past) ==
  IF cur = past \/ past = <<>> THEN cur
  ELSE IF cur = <<>> THEN past
  ELSE SelectSeq(CountryOrder, LAMBDA c : c \in Range(cur) \cup Range(past))

\* One element of the quotient: <<current, past>> when the country has a
\* value in both years, missing otherwise.  It stands for
\* (current / past - 1) * 100.
quotient(curRows, pastRows, column, country) ==
  IF country \in Range(Labels(curRows)) /\ country \in Range(Labels(pastRows))
  THEN LET c == Cell(curRows[PositionOf(Labels(curRows), country)], column)
           q == Cell(pastRows[PositionOf(Labels(pastRows), country)], column)
       IN  IF IsNaN(c) \/ IsNaN(q) THEN NaN ELSE <<Val(c), Val(q)>>
  ELSE NaN

\* The frame built for one period: the 'Country' column is current's index,
\* the growth column is the quotient in the order of the joined index; the
\* two are paired by position, and differing lengths raise ValueError.
\* Returned as the sequence of <<country, growth>> pairs.
growth_frame(df, column, period) ==
  LET latest_year == SeqMax([i \in DOMAIN df.rows |-> df.rows[i].Year])
      curRows == SelectSeq(df.rows, LAMBDA r : r.Year = latest_year)
      pastRows == SelectSeq(df.rows, LAMBDA r : r.Year = latest_year - period)
      cur == Labels(curRows)
      idx == outer_join(cur, Labels(pastRows))
  IN  IF Len(idx) # Len(cur) THEN Raise("ValueError")
      ELSE Return([i \in DOMAIN cur |->
                     <<cur[i], quotient(curRows, pastRows, column, idx[i])>>], <<>>)

\* calculate_growth_rates(df, column, periods): one row per country in
\* order of first appearance, one growth value per period (left join on
\* Country).
calculate_growth_rates(df, column, periods) ==
  IF guard(df, column) THEN Return(EmptyFrame, <<>>)
  ELSE IF column \notin df.cols THEN Raise("KeyError")
  ELSE LET countries == Appearance(Labels(df.rows))
           frames == [k \in DOMAIN periods |-> growth_frame(df, column, periods[k])]
           growth(k, c) ==
             LET at == {i \in DOMAIN frames[k].value : frames[k].value[i][1] = c}
             IN  IF at = {} THEN NaN
                 ELSE frames[k].value[CHOOSE i \in at : TRUE][2]
       IN  IF \E k \in DOMAIN periods : frames[k].exc # "none"
           THEN Raise("ValueError")
           ELSE Return([cols |-> {"Country", "yr_growth"},
                        rows |-> [i \in DOMAIN countries |->
                                    [Country |-> countries[i],
                                     growth |-> [k \in DOMAIN periods |->
                                                   growth(k, countries[i])]]]], <<>>)

(* ------------------------ floating-point results --------------------- *)
\* The result of a float computation: the exact fraction n / d (d # 0), an
\* infinity (n is its sign) or not-a-number.
Ratio(n, d) == [k |-> "ratio", n |-> n, d |-> d]
PlusInf == [k |-> "inf", n |-> 1, d |-> 0]
MinusInf == [k |-> "inf", n |-> -1, d |-> 0]
NotANumber == [k |-> "nan", n |-> 0, d |-> 0]
\* a / b on numbers: a zero divisor gives an infinity, or not-a-number for
\* 0 / 0, and raises nothing.
true_div(a, b) ==
  IF b # 0 THEN Ratio(a, b)
  ELSE IF a > 0 THEN PlusInf
  ELSE IF a < 0 THEN MinusInf
  ELSE NotANumber
\* x * 100
times_100(x) == IF x.k = "ratio" THEN Ratio(x.n * 100, x.d) ELSE x

(* ------------- aggregator.py: the per-source functions ---------------- *)
\* source_columns = ["Coal", "Oil", "Gas", "Cement", "Flaring", "Other"]
source_columns_sorted == <<"Cement", "Coal", "Flaring", "Gas", "Oil", "Other">>
source_columns == <<"Coal", "Oil", "Gas", "Cement", "Flaring", "Other">>

\* Tables of the per-source file: Country, ISO3 code, Year and some of the
\* source columns; a row holds a missing value under a column its table
\* does not have.
SrcBaseCols == {"Country", "ISO 3166-1 alpha-3", "Year"}
SrcColumnSets == {{}, {"Gas"}, {"Oil", "Gas"}}
SrcValues == {NaN, Num(0), Num(1)}
SrcRows(S) ==
  [Country : AggCountries, Year : AggYears,
   Oil : IF "Oil" \in S THEN SrcValues ELSE {NaN},
   Gas : IF "Gas" \in S THEN SrcValues ELSE {NaN}]
SrcTables(n) ==
  {EmptyFrame} \cup
  UNION {TablesOf(SrcBaseCols \cup S, SrcRows(S), n) : S \in SrcColumnSets}

\* [col for col in source_columns if col in df.columns]
present_columns(df) == SelectSeq(source_columns, LAMBDA c : c \in df.cols)

\* filtered_df[filtered_df['Country'] == country]
NoCountry == "None"
filter_country(df, country) ==
  IF country = NoCountry THEN df
  ELSE [cols |-> df.cols,
        rows |-> SelectSeq(df.rows, LAMBDA r : r.Country = country)]

\* aggregate_by_source(df, year, country)
aggregate_by_source(df, year, country) ==
  IF df_empty(df) THEN Return(EmptyFrame, <<>>)
  ELSE IF present_columns(df) = <<>> THEN Return(EmptyFrame, <<>>)
  ELSE IF (year # NoYear /\ "Year" \notin df.cols)
          \/ (country # NoCountry /\ "Country" \notin df.cols)
       THEN Raise("KeyError")
  ELSE LET cols == present_columns(df)
           filtered == filter_country(filter_year(df, year), country).rows
       IN  IF country # NoCountry
           THEN Return([cols |-> {"Year"} \cup Range(cols),
                        rows |-> [i \in DOMAIN filtered |->
                                    [Year |-> filtered[i].Year,
                                     values |-> [k \in DOMAIN cols |->
                                                   Cell(filtered[i], cols[k])]]]],
                       <<>>)
           ELSE Return([cols |-> {"Source", "Emissions"},
                        rows |-> [k \in DOMAIN cols |->
                                    [Source |-> cols[k],
                                     Emissions |-> column_sum(filtered, cols[k])]]],
                       <<>>)

\* sources_by_year[source_columns].sum(axis=1) of one row
RECURSIVE row_sum(_)
row_sum(q) == IF q = <<>> THEN 0 ELSE q[1] + row_sum(Tail(q))

\* calculate_per_source_percentages(df, year): per Year the sum of every
\* source column and (sum / sum of the sums) * 100, with no test of the
\* divisor.
calculate_per_source_percentages(df, year) ==
  IF df_empty(df) THEN Return(EmptyFrame, <<>>)
  ELSE IF present_columns(df) = <<>> THEN Return(EmptyFrame, <<>>)
  ELSE IF "Year" \notin df.cols THEN Raise("KeyError")
  ELSE LET cols == present_columns(df)
           rows == filter_year(df, year).rows
           keys == group_keys(rows)
           sums(y) == [k \in DOMAIN cols |->
                         column_sum(SelectSeq(rows, LAMBDA r : r.Year = y), cols[k])]
       IN  Return([cols |-> {"Year"} \cup Range(cols) \cup {"_pct"},
                   rows |-> [i \in DOMAIN keys |->
                               [Year |-> keys[i],
                                sums |-> sums(keys[i]),
                                pct |-> [k \in DOMAIN cols |->
                                           times_100(true_div(sums(keys[i])[k],
                                                              row_sum(sums(keys[i]))))]]]],
                  <<>>)

(* -------------------------- utils/metrics.py -------------------------- *)
\* Tables handed to the metrics: one row per (Country, Year), a Total that
\* may be missing or negative.
MetricCountries == {"A", "B"}
MetricYears == {2000, 2010}
MetricValues == {NaN, Num(-100), Num(100), Num(150)}
MetricRows == [Country : MetricCountries, Year : MetricYears, Total : MetricValues]
MetricTables(n) == {EmptyFrame} \cup TablesOf(AggCols, MetricRows, n)

\* df[df['Year'] == year][column].sum()
year_sum(df, column, year) ==
  column_sum(SelectSeq(df.rows, LAMBDA r : r.Year = year), column)

\* return np.inf if value2 > 0 else -np.inf if value2 < 0 else 0
zero_base_nan(value2) == NotANumber
zero_base(value2) ==
  IF value2 > 0 THEN PlusInf ELSE IF value2 < 0 THEN MinusInf ELSE Ratio(0, 1)

\* ((value2 - value1) / value1) * 100
percent_unscaled(value1, value2) == true_div(value2 - value1, value1)
percent(value1, value2) == times_100(true_div(value2 - value1, value1))

\* calculate_percent_change(df, column, year1, year2)
calculate_percent_change(df, column, year1, year2) ==
  IF "Year" \notin df.cols \/ column \notin df.cols THEN Raise("KeyError")
  ELSE LET value1 == year_sum(df, column, year1)
           value2 == year_sum(df, column, year2)
       IN  IF value1 = 0 THEN Return(zero_base(value2), <<>>)
           ELSE Return(percent(value1, value2), <<>>)

\* if start_value <= 0 or n_years <= 0
edge_case_start_only(start_value, n_years) == start_value <= 0
edge_case(start_value, n_years) == start_value <= 0 \/ n_years <= 0

\* (((end_value / start_value) ** (1 / n_years)) - 1) * 100, kept as the
\* quotient and the root to take; 1 / n_years on Python integers raises
\* ZeroDivisionError for n_years = 0.
compound_rate(end_value, start_value, n_years) ==
  IF n_years = 0 THEN Raise("ZeroDivisionError")
  ELSE Return([k |-> "cagr", q |-> true_div(end_value, start_value),
               root |-> n_years], <<>>)

\* calculate_cagr(df, column, start_year, end_year)
calculate_cagr(df, column, start_year, end_year) ==
  IF "Year" \notin df.cols \/ column \notin df.cols THEN Raise("KeyError")
  ELSE LET start_value == year_sum(df, column, start_year)
           end_value == year_sum(df, column, end_year)
           n_years == end_year - start_year
       IN  IF edge_case(start_value, n_years) THEN Return(Ratio(0, 1), <<>>)
           ELSE compound_rate(end_value, start_value, n_years)

\* df.sort_values('Year'): ascending, and in any order among the rows of
\* one Year (the default sort is not stable).
RECURSIVE sort_groups(_, _)
sort_groups(rows, keys) ==
  IF keys = <<>> THEN {<<>>}
  ELSE LET group == SelectSeq(rows, LAMBDA r : r.Year = keys[1])
       IN  {[i \in DOMAIN group |-> group[p[i]]] \o rest :
              p \in RowOrders(Len(group)), rest \in sort_groups(rows, Tail(keys))}
sort_by_year(rows) == sort_groups(rows, group_keys(rows))

\* .rolling(window=window, min_periods=1).mean() at position i: the mean of
\* the values present among the last window cells, missing when there is
\* none.
rolling_all(i, window) == 1..i
rolling(i, window) == {j \in 1..i : j > i - window}
rolling_mean(rows, column, i, window) ==
  LET seen == {j \in rolling(i, window) : ~IsNaN(Cell(rows[j], column))}
      RECURSIVE total(_)
      total(J) == IF J = {} THEN 0
                  ELSE LET j == CHOOSE x \in J : TRUE
                       IN  Val(Cell(rows[j], column)) + total(J \ {j})
  IN  IF seen = {} THEN NotANumber ELSE Ratio(total(seen), Cardinality(seen))

\* calculate_moving_average(df, column, window): the possible results, each
\* the rows in sorted order with their moving averages.
calculate_moving_average(df, column, window) ==
  IF "Year" \notin df.cols \/ column \notin df.cols THEN {Raise("KeyError")}
  ELSE {Return([rows |-> q,
                mean |-> [i \in DOMAIN q |-> rolling_mean(q, column, i, window)]],
               <<>>) : q \in sort_by_year(df.rows)}


(* --------------- metrics.py: calculate_emission_intensity ------------- *)
\* Tables with a source column and the Total, either of which may be
\* missing or zero in a row.
IntensityValues == {NaN, Num(0), Num(1), Num(2)}
IntensityRows ==
  [Country : AggCountries, Year : AggYears,
   Gas : IntensityValues, Total : IntensityValues]
IntensityCols == AggCols \cup {"Gas"}
IntensityTables(n) == {EmptyFrame} \cup TablesOf(IntensityCols, IntensityRows, n)

\* df[source_col] / df[total_col] of one row: a missing operand gives NaN.
cell_div(a, b) ==
  IF IsNaN(a) \/ IsNaN(b) THEN NotANumber ELSE true_div(Val(a), Val(b))

\* intensity.replace([np.inf, -np.inf, np.nan], 0)
replace_inf_only(x) == IF x.k = "inf" THEN Ratio(0, 1) ELSE x
replace(x) == IF x.k \in {"inf", "nan"} THEN Ratio(0, 1) ELSE x

\* calculate_emission_intensity(df, source_col, total_col)
calculate_emission_intensity(df, source_col, total_col) ==
  IF source_col \notin df.cols \/ total_col \notin df.cols THEN Raise("KeyError")
  ELSE Return([i \in DOMAIN df.rows |->
                 replace(times_100(cell_div(Cell(df.rows[i], source_col),
                                            Cell(df.rows[i], total_col))))],
              <<>>)


(* ---------------- metrics.py: calculate_top_contributors -------------- *)
\* Tables of three countries, so that one year can hold a row below the
\* threshold, a row kept and a row cut off by n.
ContribCountries == {"A", "B", "C"}
ContribRows == [Country : ContribCountries, Year : MetricYears, Total : MetricValues]
ContribTables(n) == {EmptyFrame} \cup TablesOf(AggCols, ContribRows, n)

\* year_df[year_df[column] >= min_value]: a missing value compares false.
\* min_value=None is the empty tuple, a threshold m is <<m>>.
NoMin == <<>>
at_least_off(rows, column, min_value) == rows
at_least(rows, column, min_value) ==
  IF min_value = NoMin THEN rows
  ELSE SelectSeq(rows, LAMBDA r : /\ ~IsNaN(Cell(r, column))
                                  /\ Val(Cell(r, column)) >= Val(min_value))

\* total = year_df[column].sum(): over the filtered rows of the year, taken
\* before the cut at n.
percentage_base_top_n(year_df, top_n, column) == column_sum(top_n, column)
percentage_base(year_df, top_n, column) == column_sum(year_df, column)

\* top_n['Percentage']: (top_n[column] / total) * 100 when total > 0, else 0.
percentage_of(r, column, total) ==
  IF total > 0 THEN times_100(cell_div(Cell(r, column), Num(total)))
  ELSE Ratio(0, 1)

\* calculate_top_contributors(df, column, year, n, min_value): the possible
\* results, each the rows returned with their Percentage.
calculate_top_contributors(df, column, year, n, min_value) ==
  IF "Year" \notin df.cols \/ column \notin df.cols THEN {Raise("KeyError")}
  ELSE LET year_df == at_least(SelectSeq(df.rows, LAMBDA r : r.Year = year),
                               column, min_value)
       IN  {Return([i \in DOMAIN head(q, n) |->
                      [row |-> q[i],
                       Percentage |-> percentage_of(q[i], column,
                            percentage_base(year_df, head(q, n), column))]],
                   <<>>) : q \in sort_values(year_df, column)}


(* ---------------- metrics.py: calculate_reduction_needed -------------- *)
ReductionYears == {2020, 2030}
ReductionRows == [Country : MetricCountries, Year : ReductionYears, Total : MetricValues]
ReductionTables(n) == {EmptyFrame} \cup TablesOf(AggCols, ReductionRows, n)

\* if years_remaining <= 0
immediate_past_only(years_remaining) == years_remaining < 0
immediate(years_remaining) == years_remaining <= 0

\* The else branch: absolute_reduction / years_remaining, then the compound
\* annual rate, whose exponent 1 / years_remaining raises on a zero horizon.
\* The root is kept unevaluated.
annual_rate(absolute_reduction, target_reduction_pct, years_remaining) ==
  IF years_remaining = 0 THEN Raise("ZeroDivisionError")
  ELSE Return([annual_reduction |->
                  Ratio(absolute_reduction.n, absolute_reduction.d * years_remaining),
               annual_reduction_pct |->
                  [k |-> "annual_rate", n |-> target_reduction_pct,
                   d |-> years_remaining]], <<>>)

\* calculate_reduction_needed(df, column, current_year, target_year,
\* target_reduction_pct): the dictionary returned, values as fractions.
calculate_reduction_needed(df, column, current_year, target_year, target_reduction_pct) ==
  IF "Year" \notin df.cols \/ column \notin df.cols THEN Raise("KeyError")
  ELSE LET current_emissions == year_sum(df, column, current_year)
           target_emissions ==
             Ratio(current_emissions * (100 - target_reduction_pct), 100)
           absolute_reduction ==
             Ratio(current_emissions * 100 - target_emissions.n, 100)
           years_remaining == target_year - current_year
           annual ==
             IF immediate(years_remaining)
             THEN Return([annual_reduction |-> absolute_reduction,
                          annual_reduction_pct |-> Ratio(target_reduction_pct, 1)],
                         <<>>)
             ELSE annual_rate(absolute_reduction, target_reduction_pct,
                              years_remaining)
       IN  IF annual.exc # "none" THEN annual
           ELSE Return([current_emissions |-> Ratio(current_emissions, 1),
                        target_emissions |-> target_emissions,
                        absolute_reduction |-> absolute_reduction,
                        annual_reduction |-> annual.value.annual_reduction,
                        annual_reduction_pct |-> annual.value.annual_reduction_pct],
                       <<>>)


(* ------- visualizations/source_breakdown.py: the stacked bars --------- *)
\* f"{source}_pct"
pct_name ==
  [Coal |-> "Coal_pct", Oil |-> "Oil_pct", Gas |-> "Gas_pct",
   Cement |-> "Cement_pct", Flaring |-> "Flaring_pct", Other |-> "Other_pct"]

\* df['Total_Sources'] = df[available_sources].sum(axis=1), then
\* df[f"{source}_pct"] = (df[source] / df['Total_Sources']) * 100 for every
\* available source: assignments to the frame the caller passed.
normalize_in_place(df, available_sources) ==
  LET total(r) == row_sum([k \in DOMAIN available_sources |->
                             IF IsNaN(r[available_sources[k]]) THEN 0
                             ELSE Val(r[available_sources[k]])])
      added == {"Total_Sources"} \cup {pct_name[s] : s \in Range(available_sources)}
      value(r, c) ==
        IF c = "Total_Sources" THEN Ratio(total(r), 1)
        ELSE LET s == CHOOSE x \in Range(available_sources) : pct_name[x] = c
             IN  times_100(cell_div(r[s], Num(total(r))))
  IN  [cols |-> df.cols \cup added,
       rows |-> [i \in DOMAIN df.rows |->
                   [c \in added |-> value(df.rows[i], c)] @@ df.rows[i]]]

\* create_stacked_bar_by_source(df, x_col, title, normalize): the frame df
\* names after the call, and the columns the bars are drawn from.
create_stacked_bar_by_source(df, normalize) ==
  LET available_sources == present_columns(df)
  IN  IF df_empty(df) \/ available_sources = <<>>
      THEN [df |-> df, value_cols |-> <<>>]
      ELSE IF normalize
      THEN [df |-> normalize_in_place(df, available_sources),
            value_cols |-> [k \in DOMAIN available_sources |->
                              pct_name[available_sources[k]]]]
      ELSE [df |-> df, value_cols |-> available_sources]


(* -------- @st.cache_data on the aggregator and metric functions ------- *)
\* The key of a call: the function and the hash of every argument; a
\* DataFrame argument is hashed by its content, so two tables have one key
\* exactly when they hold the same columns and rows.
hash_key_args_only(f, df, args) == [f |-> f, df |-> EmptyFrame, args |-> args]
hash_key(f, df, args) == [f |-> f, df |-> df, args |-> args]

\* A call through the decorator with the entries store, whose body would
\* produce r: [hit, out, store'].  A stored value is returned as a copy, and
\* a call that raises stores nothing.
memoized(store, f, df, args, r) ==
  LET key == hash_key(f, df, args)
      found == {e \in store : e.key = key}
  IN  IF found # {}
      THEN [hit |-> TRUE, out |-> (CHOOSE e \in found : TRUE).out, store |-> store]
      ELSE [hit |-> FALSE, out |-> r,
            store |-> IF r.exc = "none"
                      THEN store \cup {[key |-> key, out |-> r]}
                      ELSE store]

\* The body of a decorated function on a table and the other arguments.
body_of(f, df, args) ==
  IF f = "aggregate_by_year" THEN aggregate_by_year(df, args[1])
  ELSE calculate_cagr(df, args[1], args[2], args[3])

MemoRows == [Country : {"A"}, Year : MetricYears, Total : {Num(100), Num(150)}]
MemoTables(n) == {EmptyFrame} \cup TablesOf(AggCols, MemoRows, n)


(* ---------------- components/sidebar.py: the widgets ------------------ *)
\* Tables whose years lie on both sides of the two config defaults.
SidebarYears == {DEFAULT_START_YEAR - 1, DEFAULT_START_YEAR,
                 DEFAULT_END_YEAR, DEFAULT_END_YEAR + 1}
SidebarTables(n) ==
  {[cols |-> CsvColumns, year |-> y] : y \in SeqsUpTo(SidebarYears, n)}

\* years = sorted(df['Year'].unique())
year_options(df) == Ascending(Range(df.year))

\* The default add_year_selector settles on: the latest year for None, the
\* requested year when it is an option, else the smallest option that is
\* not below it, else the latest year.
preselect_latest(years, default) == years[Len(years)]
preselect(years, default) ==
  IF default = NoYear THEN years[Len(years)]
  ELSE IF default \notin Range(years)
  THEN LET later == {y \in Range(years) : y >= default}
       IN  IF later = {} THEN years[Len(years)]
           ELSE CHOOSE y \in later : \A z \in later : y <= z
  ELSE default

\* The options and the index add_year_selector hands to st.sidebar.selectbox;
\* the index counts from 0.
year_selectbox(df, default) ==
  LET years == year_options(df)
      settled == preselect(years, default)
  IN  [options |-> years,
       index |-> IF settled \in Range(years) THEN PositionOf(years, settled) - 1
                 ELSE Len(years) - 1]


(* --------- components/filters.py: add_multi_country_selector ---------- *)
FilterCountries == {"China", "India", "Japan"}
FilterRows == [Country : FilterCountries, Year : AggYears, Total : {Num(1)}]
FilterTables(n) == {EmptyFrame} \cup TablesOf(AggCols, FilterRows, n)

\* The default list, restricted to the countries of the table.
major_emitters == <<"China", "United States", "India", "Russia", "Japan">>
default_selection(available_countries) ==
  SelectSeq(major_emitters, LAMBDA c : c \in available_countries)

\* What st.sidebar.multiselect can return: the options the user has
\* selected, each once, in the order of selection.
Selections(available_countries) ==
  {q \in SeqsUpTo(available_countries, Cardinality(available_countries)) :
     \A i, j \in DOMAIN q : q[i] = q[j] => i = j}

\* selected_countries[:max_selections]
slice_to_all(q, n) == q
slice_to(q, n) == SubSeq(q, 1, Lower(n, Len(q)))

\* add_multi_country_selector(df, max_selections=...), the multiselect
\* returning selected.
add_multi_country_selector(df, max_selections, selected) ==
  IF "Country" \notin df.cols THEN Raise("KeyError")
  ELSE IF Len(selected) > max_selections
  THEN Return(slice_to(selected, max_selections),
              <<Msg("warning", "please limit your selection", max_selections)>>)
  ELSE Return(selected, <<>>)

(* ----------------- the aggregator applied to a table ------------------ *)
TopNChoices == {1, 2}
PeriodChoices == {<<1>>, <<5, 10, 20>>}
YearArgs == {NoYear} \cup AggYears
AggCall(op, year, n, periods, out) ==
  [op |-> op, year |-> year, n |-> n, periods |-> periods, out |-> out]

InitAgg ==
  /\ fn = "load_emissions_data"
  /\ fs = [p \in Paths(fn) |-> Absent]
  /\ cache = [k \in CacheKeys(fn) |-> NoEntry]
  /\ last = NoCall
  /\ pass = NoPass
  /\ aggDf \in AggTables(MaxAggRows)
  /\ aggColumn \in AggColumnArgs
  /\ aggOut = NoAggOut

AggregateByYear ==
  /\ aggOut' = AggCall("aggregate_by_year", NoYear, 0, <<>>,
                       aggregate_by_year(aggDf, aggColumn))
  /\ UNCHANGED <<aggDf, aggColumn>>
  /\ UNCHANGED loaderVars

AggregateByRegion(year) ==
  /\ aggOut' = AggCall("aggregate_by_region", year, 0, <<>>,
                       aggregate_by_region(aggDf, aggColumn, year))
  /\ UNCHANGED <<aggDf, aggColumn>>
  /\ UNCHANGED loaderVars

GetTopEmitters(year, n) ==
  /\ \E out \in get_top_emitters(aggDf, aggColumn, year, n) :
        aggOut' = AggCall("get_top_emitters", year, n, <<>>, out)
  /\ UNCHANGED <<aggDf, aggColumn>>
  /\ UNCHANGED loaderVars

CalculateGrowthRates(periods) ==
  /\ aggOut' = AggCall("calculate_growth_rates", NoYear, 0, periods,
                       calculate_growth_rates(aggDf, aggColumn, periods))
  /\ UNCHANGED <<aggDf, aggColumn>>
  /\ UNCHANGED loaderVars

NextAgg ==
  \/ AggregateByYear
  \/ \E year \in YearArgs : AggregateByRegion(year)
  \/ \E year \in YearArgs : \E n \in TopNChoices : GetTopEmitters(year, n)
  \/ \E periods \in PeriodChoices : CalculateGrowthRates(periods)

SpecAgg == InitAgg /\ [][NextAgg]_vars

(* ------------- aggregate_by_region applied to a table ----------------- *)
\* Tables whose countries lie in two different regions and in none.
RegionCountries == {"United States", "China", "Kosovo"}
RegionValues == {NaN, Num(1)}
RegionRows == [Country : RegionCountries, Year : AggYears, Total : RegionValues]
RegionTables(n) == {EmptyFrame} \cup TablesOf(AggCols, RegionRows, n)
RegionColumnArgs == {"Total", "Coal"}

InitRegion ==
  /\ fn = "load_emissions_data"
  /\ fs = [p \in Paths(fn) |-> Absent]
  /\ cache = [k \in CacheKeys(fn) |-> NoEntry]
  /\ last = NoCall
  /\ pass = NoPass
  /\ aggDf \in RegionTables(MaxRegionRows)
  /\ aggColumn \in RegionColumnArgs
  /\ aggOut = NoAggOut

NextRegion == \E year \in YearArgs : AggregateByRegion(year)

SpecRegion == InitRegion /\ [][NextRegion]_vars

(* ----------- the per-source functions applied to a table ------------- *)
CountryArgs == {NoCountry, "Kosovo"}
SrcCall(op, year, country, out) ==
  [op |-> op, year |-> year, country |-> country, out |-> out]

\* Neither function takes a column argument: aggColumn stays as it is.
InitSrc ==
  /\ fn = "load_sources_data"
  /\ fs = [p \in Paths(fn) |-> Absent]
  /\ cache = [k \in CacheKeys(fn) |-> NoEntry]
  /\ last = NoCall
  /\ pass = NoPass
  /\ aggDf \in SrcTables(MaxSrcRows)
  /\ aggColumn = "Total"
  /\ aggOut = NoAggOut

AggregateBySource(year, country) ==
  /\ aggOut' = SrcCall("aggregate_by_source", year, country,
                       aggregate_by_source(aggDf, year, country))
  /\ UNCHANGED <<aggDf, aggColumn>>
  /\ UNCHANGED loaderVars

CalculatePerSourcePercentages(year) ==
  /\ aggOut' = SrcCall("calculate_per_source_percentages", year, NoCountry,
                       calculate_per_source_percentages(aggDf, year))
  /\ UNCHANGED <<aggDf, aggColumn>>
  /\ UNCHANGED loaderVars

NextSrc ==
  \/ \E year \in YearArgs : \E country \in CountryArgs :
        AggregateBySource(year, country)
  \/ \E year \in YearArgs : CalculatePerSourcePercentages(year)

SpecSrc == InitSrc /\ [][NextSrc]_vars

(* ------------------ the metrics applied to a table -------------------- *)
WindowChoices == {2, 5}
MetricCall(op, year1, year2, window, out) ==
  [op |-> op, year1 |-> year1, year2 |-> year2, window |-> window, out |-> out]

InitMetrics ==
  /\ fn = "load_emissions_data"
  /\ fs = [p \in Paths(fn) |-> Absent]
  /\ cache = [k \in CacheKeys(fn) |-> NoEntry]
  /\ last = NoCall
  /\ pass = NoPass
  /\ aggDf \in MetricTables(MaxMetricRows)
  /\ aggColumn = "Total"
  /\ aggOut = NoAggOut

CalculatePercentChange(year1, year2) ==
  /\ aggOut' = MetricCall("calculate_percent_change", year1, year2, 0,
                          calculate_percent_change(aggDf, aggColumn, year1, year2))
  /\ UNCHANGED <<aggDf, aggColumn>>
  /\ UNCHANGED loaderVars

CalculateCagr(start_year, end_year) ==
  /\ aggOut' = MetricCall("calculate_cagr", start_year, end_year, 0,
                          calculate_cagr(aggDf, aggColumn, start_year, end_year))
  /\ UNCHANGED <<aggDf, aggColumn>>
  /\ UNCHANGED loaderVars

CalculateMovingAverage(window) ==
  /\ \E out \in calculate_moving_average(aggDf, aggColumn, window) :
        aggOut' = MetricCall("calculate_moving_average", NoYear, NoYear, window, out)
  /\ UNCHANGED <<aggDf, aggColumn>>
  /\ UNCHANGED loaderVars

NextMetrics ==
  \/ \E year1, year2 \in MetricYears : CalculatePercentChange(year1, year2)
  \/ \E start_year, end_year \in MetricYears : CalculateCagr(start_year, end_year)

SpecMetrics == InitMetrics /\ [][NextMetrics]_vars

NextMovingAverage == \E window \in WindowChoices : CalculateMovingAverage(window)

SpecMovingAverage == InitMetrics /\ [][NextMovingAverage]_vars


(* ----------- calculate_emission_intensity applied to a table ---------- *)
\* aggColumn is the source column of the call, the total column is Total.
InitIntensity ==
  /\ fn = "load_emissions_data"
  /\ fs = [p \in Paths(fn) |-> Absent]
  /\ cache = [k \in CacheKeys(fn) |-> NoEntry]
  /\ last = NoCall
  /\ pass = NoPass
  /\ aggDf \in IntensityTables(MaxIntensityRows)
  /\ aggColumn = "Gas"
  /\ aggOut = NoAggOut

CalculateEmissionIntensity(total_col) ==
  /\ aggOut' = MetricCall("calculate_emission_intensity", NoYear, NoYear, 0,
                          calculate_emission_intensity(aggDf, aggColumn, total_col))
  /\ UNCHANGED <<aggDf, aggColumn>>
  /\ UNCHANGED loaderVars

NextIntensity == \E total_col \in {"Total"} : CalculateEmissionIntensity(total_col)

SpecIntensity == InitIntensity /\ [][NextIntensity]_vars


(* ------------ calculate_top_contributors applied to a table ----------- *)
MinValueChoices == {NoMin, Num(150)}
ContribCall(op, year, n, min_value, out) ==
  [op |-> op, year |-> year, n |-> n, min_value |-> min_value, out |-> out]

InitContrib ==
  /\ fn = "load_emissions_data"
  /\ fs = [p \in Paths(fn) |-> Absent]
  /\ cache = [k \in CacheKeys(fn) |-> NoEntry]
  /\ last = NoCall
  /\ pass = NoPass
  /\ aggDf \in ContribTables(MaxContribRows)
  /\ aggColumn = "Total"
  /\ aggOut = NoAggOut

CalculateTopContributors(year, n, min_value) ==
  /\ \E out \in calculate_top_contributors(aggDf, aggColumn, year, n, min_value) :
        aggOut' = ContribCall("calculate_top_contributors", year, n, min_value, out)
  /\ UNCHANGED <<aggDf, aggColumn>>
  /\ UNCHANGED loaderVars

NextContrib ==
  \E n \in TopNChoices : \E min_value \in MinValueChoices :
     CalculateTopContributors(2000, n, min_value)

SpecContrib == InitContrib /\ [][NextContrib]_vars


(* ------------ calculate_reduction_needed applied to a table ----------- *)
ReductionPcts == {30, 50}
ReductionCall(op, current_year, target_year, target_reduction_pct, out) ==
  [op |-> op, current_year |-> current_year, target_year |-> target_year,
   target_reduction_pct |-> target_reduction_pct, out |-> out]

InitReduction ==
  /\ fn = "load_emissions_data"
  /\ fs = [p \in Paths(fn) |-> Absent]
  /\ cache = [k \in CacheKeys(fn) |-> NoEntry]
  /\ last = NoCall
  /\ pass = NoPass
  /\ aggDf \in ReductionTables(MaxMetricRows)
  /\ aggColumn = "Total"
  /\ aggOut = NoAggOut

CalculateReductionNeeded(current_year, target_year, target_reduction_pct) ==
  /\ aggOut' = ReductionCall("calculate_reduction_needed", current_year,
                             target_year, target_reduction_pct,
                             calculate_reduction_needed(aggDf, aggColumn,
                                current_year, target_year, target_reduction_pct))
  /\ UNCHANGED <<aggDf, aggColumn>>
  /\ UNCHANGED loaderVars

NextReduction ==
  \E current_year, target_year \in ReductionYears :
     \E target_reduction_pct \in ReductionPcts :
        CalculateReductionNeeded(current_year, target_year, target_reduction_pct)

SpecReduction == InitReduction /\ [][NextReduction]_vars


(* --------------- a page's calls on one per-source table --------------- *)
\* The stacked-bar builder and aggregate_by_source, called in any order on
\* the table the page holds.
CreateStackedBarBySource(normalize) ==
  LET done == create_stacked_bar_by_source(aggDf, normalize)
  IN  /\ aggDf' = done.df
      /\ aggOut' = SrcCall("create_stacked_bar_by_source", NoYear, NoCountry,
                           Return(done.value_cols, <<>>))
      /\ UNCHANGED aggColumn
      /\ UNCHANGED loaderVars

NextChart ==
  \/ \E normalize \in BOOLEAN : CreateStackedBarBySource(normalize)
  \/ AggregateBySource(NoYear, NoCountry)

SpecChart == InitSrc /\ [][NextChart]_vars


(* ------------- memoized calls on the tables a page holds -------------- *)
\* cache is the set of stored entries; aggDf is the table the page holds,
\* replaced by another one when the data or a filter changes.
MemoCalls == {[f |-> "aggregate_by_year", args |-> <<"Total">>],
              [f |-> "calculate_cagr", args |-> <<"Total", 2000, 2010>>]}
MemoCall(f, args, hit, out) == [op |-> f, args |-> args, hit |-> hit, out |-> out]

InitMemo ==
  /\ fn = "load_emissions_data"
  /\ fs = [p \in Paths(fn) |-> Absent]
  /\ cache = {}
  /\ last = NoCall
  /\ pass = NoPass
  /\ aggDf \in MemoTables(MaxMemoRows)
  /\ aggColumn = "Total"
  /\ aggOut = NoAggOut

NewTable(df) ==
  /\ df # aggDf
  /\ aggDf' = df
  /\ UNCHANGED <<aggColumn, aggOut>>
  /\ UNCHANGED loaderVars

CallMemoized(c) ==
  LET m == memoized(cache, c.f, aggDf, c.args, body_of(c.f, aggDf, c.args))
  IN  /\ Cardinality(m.store) <= MaxMemoEntries
      /\ cache' = m.store
      /\ aggOut' = MemoCall(c.f, c.args, m.hit, m.out)
      /\ UNCHANGED <<fn, fs, last, pass, aggDf, aggColumn>>

NextMemo ==
  \/ \E df \in MemoTables(MaxMemoRows) : NewTable(df)
  \/ \E c \in MemoCalls : CallMemoized(c)

SpecMemo == InitMemo /\ [][NextMemo]_vars


(* ------------------ the sidebar widgets on a table -------------------- *)
\* aggDf is the loaded table in the loader's shape (columns and Year
\* column).  widgets are the arguments handed to the widgets that were
\* created, out is what the function returned or raised.
DefaultArgs == {NoYear} \cup SidebarYears
SidebarCall(op, widgets, out) == [op |-> op, widgets |-> widgets, out |-> out]

InitSidebar ==
  /\ fn = "load_emissions_data"
  /\ fs = [p \in Paths(fn) |-> Absent]
  /\ cache = [k \in CacheKeys(fn) |-> NoEntry]
  /\ last = NoCall
  /\ pass = NoPass
  /\ aggDf \in SidebarTables(MaxSidebarRows)
  /\ aggColumn = "Year"
  /\ aggOut = NoAggOut

\* The user leaves the start slider at sChosen within its bounds and the
\* end slider at eChosen within its bounds.
AddYearRangeSelector(sChosen, eChosen) ==
  /\ aggDf.year # <<>> => /\ sChosen \in YearChoices(aggDf)
                          /\ eChosen \in sChosen..SeqMax(aggDf.year)
  /\ aggOut' = SidebarCall("add_year_range_selector",
                  IF aggDf.year = <<>> THEN <<>>
                  ELSE IF slider(start_slider(aggDf).min_value,
                                 start_slider(aggDf).max_value,
                                 start_slider(aggDf).value, sChosen).exc # "none"
                  THEN <<start_slider(aggDf)>>
                  ELSE <<start_slider(aggDf), end_slider(aggDf, sChosen)>>,
                  add_year_range_selector(aggDf, sChosen, eChosen))
  /\ UNCHANGED <<aggDf, aggColumn>>
  /\ UNCHANGED loaderVars

AddYearSelector(default, chosen) ==
  /\ chosen \in Range(aggDf.year) \cup {NoYear}
  /\ aggDf.year = <<>> <=> chosen = NoYear
  /\ aggOut' = SidebarCall("add_year_selector",
                  IF aggDf.year = <<>> THEN <<>>
                  ELSE <<year_selectbox(aggDf, default) @@ [default |-> default]>>,
                  add_year_selector(aggDf, default, chosen))
  /\ UNCHANGED <<aggDf, aggColumn>>
  /\ UNCHANGED loaderVars

NextSidebar ==
  \/ \E sChosen, eChosen \in SidebarYears : AddYearRangeSelector(sChosen, eChosen)
  \/ \E default \in DefaultArgs : \E chosen \in SidebarYears \cup {NoYear} :
        AddYearSelector(default, chosen)

SpecSidebar == InitSidebar /\ [][NextSidebar]_vars


(* ------------- add_multi_country_selector on a table ------------------ *)
MaxSelectionChoices == {1, 2}
FilterCall(op, max_selections, selected, default, out) ==
  [op |-> op, max_selections |-> max_selections, selected |-> selected,
   default |-> default, out |-> out]

InitFilters ==
  /\ fn = "load_emissions_data"
  /\ fs = [p \in Paths(fn) |-> Absent]
  /\ cache = [k \in CacheKeys(fn) |-> NoEntry]
  /\ last = NoCall
  /\ pass = NoPass
  /\ aggDf \in FilterTables(MaxFilterRows)
  /\ aggColumn = "Total"
  /\ aggOut = NoAggOut

AddMultiCountrySelector(max_selections) ==
  LET available_countries ==
        IF "Country" \in aggDf.cols
        THEN {aggDf.rows[i].Country : i \in DOMAIN aggDf.rows} ELSE {}
  IN  /\ \E selected \in Selections(available_countries) :
            aggOut' = FilterCall("add_multi_country_selector", max_selections,
                         selected, default_selection(available_countries),
                         add_multi_country_selector(aggDf, max_selections, selected))
      /\ UNCHANGED <<aggDf, aggColumn>>
      /\ UNCHANGED loaderVars

NextFilters ==
  \E max_selections \in MaxSelectionChoices : AddMultiCountrySelector(max_selections)

SpecFilters == InitFilters /\ [][NextFilters]_vars

(* ======================= properties of the loaders ==================== *)
\* A step in which loader fn is called with the arguments k, directly or as
\* the first statement of a page's main().
AnyCall(k) == CallLoader(k) \/ (k = NoArgs /\ \E page \in Pages : RenderPass(page))
\* Such a step in which the decorated function itself runs (nothing stored).
BodyRuns(k) == AnyCall(k) /\ ~last'.hit
\* A result that came with an st.error or st.warning.
Failed(r) == r.msgs # <<>>

C2_SameColumnsForAll ==
  [][\A k \in CacheKeys(fn) :
       (/\ fn \in CsvLoaders
        /\ BodyRuns(k)
        /\ fs[ConfigFile(fn)].kind = "csv"
        /\ CsvColumns \ fs[ConfigFile(fn)].cols # {})
         => /\ last'.out.value = EmptyTable
            /\ Len(last'.out.msgs) = 1
            /\ last'.out.msgs[1].level = "error"
            /\ last'.out.msgs[1].subject \in CsvColumns \ fs[ConfigFile(fn)].cols]_vars

\* C2 amended: load_emissions_data and load_per_capita_data require Country,
\* ISO 3166-1 alpha-3, Year and Total, load_sources_data requires only the
\* first three; a parsed file lacking a required column yields the empty
\* table and one error naming the first missing required column, and a file
\* that has them all is not rejected for a column.
RequiredOf(f) ==
  IF f = "load_sources_data"
  THEN {"Country", "ISO 3166-1 alpha-3", "Year"}
  ELSE {"Country", "ISO 3166-1 alpha-3", "Year", "Total"}
C2_ColumnsPerLoader ==
  [][\A k \in CacheKeys(fn) :
       (fn \in CsvLoaders /\ BodyRuns(k) /\ fs[ConfigFile(fn)].kind = "csv")
         => LET missing == RequiredOf(fn) \ fs[ConfigFile(fn)].cols
            IN  /\ missing # {} =>
                     /\ last'.out.value = EmptyTable
                     /\ Len(last'.out.msgs) = 1
                     /\ last'.out.msgs[1].level = "error"
                     /\ last'.out.msgs[1].text = "Error: Required column not found in data"
                     /\ last'.out.msgs[1].subject \in missing
                /\ missing = {} =>
                     \A i \in DOMAIN last'.out.msgs :
                        last'.out.msgs[i].text # "Error: Required column not found in data"]_vars

C2_Witness ==
  /\ fn = "load_sources_data"
  /\ ~last.hit
  /\ last.out.exc = "none"
  /\ last.out.msgs = <<>>
  /\ last.out.value.cols = {"Country", "ISO 3166-1 alpha-3", "Year"}
  /\ Len(last.out.value.year) = 2

\* C3: a render pass whose loader returned the empty table never ends in an
\* uncaught exception.
C3_PassNeverRaises ==
  (pass.page # "none" /\ last.out.value = EmptyTable) => pass.exc = "none"

\* C4: a load that failed earlier does not decide a later load: a call made
\* when the file is valid returns the table (mapping) the file holds, not the
\* empty result of the earlier failure.
C4_FailureNotSticky ==
  [][\A k \in CacheKeys(fn) :
       (/\ AnyCall(k)
        /\ cache[k].set
        /\ Failed(cache[k].out)
        /\ ~Failed(Body(fn, k, fs)))
         => last'.out.value = Body(fn, k, fs).value]_vars

\* C5: once a call of a loader has returned, its result is kept for the life
\* of the process: every later call returns it without running the loader
\* (so without reading the file), and no file change alters what is kept.
C5_LoadedOnce ==
  [][\A k \in CacheKeys(fn) :
       /\ (AnyCall(k) /\ last'.out.exc = "none") => cache'[k].set
       /\ cache[k].set => cache'[k] = cache[k]
       /\ (AnyCall(k) /\ cache[k].set) => (last'.hit /\ last'.out = cache[k].out)]_vars

C5_Witness ==
  /\ fn \in CsvLoaders
  /\ last.key = NoArgs
  /\ last.hit
  /\ last.out # Body(fn, NoArgs, fs)

\* C6: when a table loader runs on a file that passes the required-column
\* check and whose Year column holds a value that cannot be cast to an
\* integer, it returns the empty table with one error and raises nothing.
C6_BadYear ==
  [][\A k \in CacheKeys(fn) :
       (/\ fn \in CsvLoaders
        /\ BodyRuns(k)
        /\ fs[ConfigFile(fn)].kind = "csv"
        /\ MissingAt(required_columns(fn), fs[ConfigFile(fn)].cols) = {}
        /\ \E i \in DOMAIN fs[ConfigFile(fn)].year :
              fs[ConfigFile(fn)].year[i].k # "int")
         => /\ last'.out.exc = "none"
            /\ last'.out.value = EmptyTable
            /\ Len(last'.out.msgs) = 1
            /\ last'.out.msgs[1].level = "error"]_vars

C6_Witness ==
  /\ fn = "load_emissions_data"
  /\ ~last.hit
  /\ last.out = Return(EmptyTable,
                       <<Msg("error", "Error loading emissions data", "ValueError")>>)
  /\ fs[TOTAL_EMISSIONS_FILE].kind = "csv"
  /\ Len(fs[TOTAL_EMISSIONS_FILE].year) = 2
  /\ fs[TOTAL_EMISSIONS_FILE].year[1].k = "int"

\* C7: whenever load_metadata runs it raises nothing; if the file is absent,
\* unreadable or not valid JSON it returns the empty mapping with one
\* st.warning (no st.error); otherwise it returns exactly the parsed mapping
\* and emits nothing.
C7_Metadata ==
  [][\A k \in CacheKeys(fn) :
       (fn = "load_metadata" /\ BodyRuns(k))
         => /\ last'.out.exc = "none"
            /\ fs[k].kind = "json" => last'.out = Return(fs[k].doc, <<>>)
            /\ fs[k].kind # "json" =>
                 /\ last'.out.value = EmptyMapping
                 /\ Len(last'.out.msgs) = 1
                 /\ last'.out.msgs[1].level = "warning"]_vars

C7_Witness ==
  /\ fn = "load_metadata"
  /\ last.key = PER_CAPITA_METADATA
  /\ ~last.hit
  /\ last.out = Return(EmptyMapping,
                       <<Msg("warning", "Error loading metadata", "JSONDecodeError")>>)

(* ===================== properties of the aggregator =================== *)
\* The sum of a column over the rows at the indexes I, a missing value
\* adding nothing.
RECURSIVE SumOver(_, _, _)
SumOver(rows, I, column) ==
  IF I = {} THEN 0
  ELSE LET i == CHOOSE x \in I : TRUE
           c == Cell(rows[i], column)
       IN  (IF IsNaN(c) THEN 0 ELSE Val(c)) + SumOver(rows, I \ {i}, column)
YearsOf(df) == {df.rows[i].Year : i \in DOMAIN df.rows}
\* out is a returned frame with exactly one row per distinct Year of df,
\* each holding the sum of the column over df's rows of that Year.
OneSumPerYear(df, column, out) ==
  /\ out.exc = "none"
  /\ Len(out.value.rows) = Cardinality(YearsOf(df))
  /\ {out.value.rows[i].Year : i \in DOMAIN out.value.rows} = YearsOf(df)
  /\ \A i \in DOMAIN out.value.rows :
        out.value.rows[i].value =
          SumOver(df.rows,
                  {j \in DOMAIN df.rows : df.rows[j].Year = out.value.rows[i].Year},
                  column)

C9_AscendingYears ==
  (aggOut.op = "aggregate_by_year" /\ aggOut.out.exc = "none")
    => \A i, j \in DOMAIN aggOut.out.value.rows :
          i < j => aggOut.out.value.rows[i].Year < aggOut.out.value.rows[j].Year

C9_Witness ==
  /\ aggOut.op = "aggregate_by_year"
  /\ aggOut.out.exc = "none"
  /\ Len(aggDf.rows) >= 2
  /\ aggDf.rows[1].Year > aggDf.rows[2].Year
  /\ Len(aggOut.out.value.rows) = 2

\* C10: aggregate_by_year, aggregate_by_region, get_top_emitters and
\* calculate_growth_rates return the empty frame, raising nothing, whenever
\* the table has no row or the requested column is not one of its columns.
C10_EmptyResult ==
  (/\ aggOut.op \in {"aggregate_by_year", "aggregate_by_region",
                     "get_top_emitters", "calculate_growth_rates"}
   /\ (aggDf.rows = <<>> \/ aggColumn \notin aggDf.cols))
    => aggOut.out = Return(EmptyFrame, <<>>)

C10_Witness ==
  /\ aggOut.op = "calculate_growth_rates"
  /\ aggDf.rows # <<>>
  /\ aggColumn = "Coal"
  /\ aggOut.out = Return(EmptyFrame, <<>>)

(* ================= properties of aggregate_by_region ================== *)
\* The rows of df that a year argument keeps.
RowsOfYear(df, year) ==
  IF year = NoYear THEN df.rows
  ELSE SelectSeq(df.rows, LAMBDA r : r.Year = year)
RegionNames == {REGIONS[k].name : k \in DOMAIN REGIONS}
\* The positions of the rows whose ISO3 code is in the code list of region g.
Members(rows, g) ==
  {i \in DOMAIN rows :
     \E k \in DOMAIN REGIONS :
        REGIONS[k].name = g /\ Iso(rows[i].Country) \in REGIONS[k].codes}

\* C11: aggregate_by_region on a column of the table, after restricting the
\* table to the year when one is given, returns exactly one row for each
\* region with at least one row whose ISO3 code is in its code list and none
\* for any other; the row's value is the sum of the column over exactly
\* those rows, so a row whose code is in no region adds to no row.
C11_SumPerRegion ==
  (aggOut.op = "aggregate_by_region" /\ aggColumn \in aggDf.cols)
    => LET rows == RowsOfYear(aggDf, aggOut.year)
           out == aggOut.out
       IN  /\ out.exc = "none"
           /\ \A g \in RegionNames :
                 Cardinality({j \in DOMAIN out.value.rows :
                                out.value.rows[j].Region = g})
                   = IF Members(rows, g) # {} THEN 1 ELSE 0
           /\ \A j \in DOMAIN out.value.rows :
                 /\ out.value.rows[j].Region \in RegionNames
                 /\ out.value.rows[j].value =
                      SumOver(rows, Members(rows, out.value.rows[j].Region),
                              aggColumn)

C11_Witness ==
  /\ aggOut.op = "aggregate_by_region"
  /\ aggOut.year = NoYear
  /\ aggColumn = "Total"
  /\ Len(aggDf.rows) = 4
  /\ \E i \in DOMAIN aggDf.rows :
        aggDf.rows[i].Country = "Kosovo" /\ aggDf.rows[i].Total = Num(1)
  /\ aggOut.out.exc = "none"
  /\ Len(aggOut.out.value.rows) = 2
  /\ aggOut.out.value.rows[1] = [Region |-> "Asia", value |-> 1]
  /\ aggOut.out.value.rows[2] = [Region |-> "North America", value |-> 2]

(* ============== properties of the per-source functions =============== *)
\* The six source columns in the order of the list, restricted to those of
\* the table, and the positions of all the rows of a sequence.
PresentSources(df) ==
  SelectSeq(<<"Coal", "Oil", "Gas", "Cement", "Flaring", "Other">>,
            LAMBDA c : c \in df.cols)
\* out is a frame with one row per present source column, in list order,
\* whose Emissions is the sum of the column over the rows of the year.
OneRowPerSource(df, year, out) ==
  /\ out.exc = "none"
  /\ Len(out.value.rows) = Len(PresentSources(df))
  /\ \A k \in DOMAIN out.value.rows :
        /\ out.value.rows[k].Source = PresentSources(df)[k]
        /\ out.value.rows[k].Emissions =
             SumOver(RowsOfYear(df, year),
                     DOMAIN RowsOfYear(df, year), PresentSources(df)[k])

\* C12 as stated: for every table, aggregate_by_source without a country
\* returns one row per present source column, in the fixed order, holding
\* the sum of the column over the rows matching the year filter, and the
\* empty frame when no source column is present.
C12_EveryTable ==
  (aggOut.op = "aggregate_by_source" /\ aggOut.country = NoCountry)
    => IF PresentSources(aggDf) = <<>>
       THEN aggOut.out = Return(EmptyFrame, <<>>)
       ELSE OneRowPerSource(aggDf, aggOut.year, aggOut.out)

\* C12 amended: the same for every table with at least one row; a table
\* with no row gives the empty frame, whatever its columns.
C12_RowPerSource ==
  (aggOut.op = "aggregate_by_source" /\ aggOut.country = NoCountry)
    => IF PresentSources(aggDf) = <<>> \/ aggDf.rows = <<>>
       THEN aggOut.out = Return(EmptyFrame, <<>>)
       ELSE OneRowPerSource(aggDf, aggOut.year, aggOut.out)

C12_Witness ==
  /\ aggOut.op = "aggregate_by_source"
  /\ aggOut.country = NoCountry
  /\ aggOut.year = 2000
  /\ Len(aggDf.rows) = 2
  /\ aggDf.rows[1].Year = 2000 /\ aggDf.rows[2].Year = 2000
  /\ aggOut.out.exc = "none"
  /\ aggOut.out.value.rows =
       << [Source |-> "Oil", Emissions |-> 2], [Source |-> "Gas", Emissions |-> 1] >>

\* The sum of all the cells of the rows under the columns cols.
RECURSIVE SumColumns(_, _)
SumColumns(rows, cols) ==
  IF cols = <<>> THEN 0
  ELSE SumOver(rows, DOMAIN rows, cols[1]) + SumColumns(rows, Tail(cols))

\* C13: in the result of calculate_per_source_percentages, every year whose
\* sum over all present source columns is zero has 0 for every percentage.
C13_ZeroDenominator ==
  (aggOut.op = "calculate_per_source_percentages" /\ aggOut.out.exc = "none")
    => \A j \in DOMAIN aggOut.out.value.rows :
          LET row == aggOut.out.value.rows[j]
              rows == SelectSeq(aggDf.rows, LAMBDA r : r.Year = row.Year)
              whole == SumColumns(rows, PresentSources(aggDf))
          IN  whole = 0
                => \A k \in DOMAIN row.pct :
                      row.pct[k].k = "ratio" /\ row.pct[k].n = 0

(* ================== properties of get_top_emitters ==================== *)
\* The position of row r in the table (rows are distinct: one per key).
PositionIn(rows, r) == CHOOSE i \in DOMAIN rows : rows[i] = r
\* Row a has a value of the column greater than that of row b.
Greater(a, b, column) ==
  /\ ~IsNaN(Cell(a, column))
  /\ IsNaN(Cell(b, column)) \/ Val(Cell(a, column)) > Val(Cell(b, column))

\* C14: get_top_emitters on a column of the table returns min(n, k) of the
\* k rows matching the year filter, in non-increasing order of the column
\* (rows with a missing value after all others), and no row left out has a
\* greater value than a row returned.
C14_TopN ==
  (aggOut.op = "get_top_emitters" /\ aggColumn \in aggDf.cols)
    => LET kept == RowsOfYear(aggDf, aggOut.year)
           out == aggOut.out.value.rows
           k == Len(kept)
       IN  /\ aggOut.out.exc = "none"
           /\ Len(out) = IF aggOut.n <= k THEN aggOut.n ELSE k
           /\ Range(out) \subseteq Range(kept)
           /\ Cardinality(Range(out)) = Len(out)
           /\ \A i, j \in DOMAIN out : i < j => ~Greater(out[j], out[i], aggColumn)
           /\ \A r \in Range(kept) \ Range(out) :
                 \A o \in Range(out) : ~Greater(r, o, aggColumn)

C14_Witness ==
  /\ aggOut.op = "get_top_emitters"
  /\ aggOut.year = NoYear
  /\ aggOut.n = 2
  /\ aggColumn = "Total"
  /\ Len(aggDf.rows) = 3
  /\ aggDf.rows[1].Total = Num(1)
  /\ aggDf.rows[2].Total = NaN
  /\ aggDf.rows[3].Total = Num(2)
  /\ aggOut.out.exc = "none"
  /\ aggOut.out.value.rows = <<aggDf.rows[3], aggDf.rows[1]>>

\* C15: rows of equal value are returned by get_top_emitters in the order
\* they have in the table, and of the rows tied across the cut at n the ones
\* earlier in the table are the ones returned.
C15_StableTies ==
  (aggOut.op = "get_top_emitters" /\ aggColumn \in aggDf.cols
     /\ aggOut.out.exc = "none")
    => LET kept == RowsOfYear(aggDf, aggOut.year)
           out == aggOut.out.value.rows
           Tied(a, b) == Cell(a, aggColumn) = Cell(b, aggColumn)
       IN  /\ \A i, j \in DOMAIN out :
                 (i < j /\ Tied(out[i], out[j]))
                   => PositionIn(kept, out[i]) < PositionIn(kept, out[j])
           /\ \A r \in Range(kept) \ Range(out) :
                 \A o \in Range(out) :
                    Tied(r, o) => PositionIn(kept, o) < PositionIn(kept, r)

(* =============== properties of calculate_growth_rates ================= *)
\* The value of the column in the row of the country at the year, or
\* "none" when the country has no row there.
ValueAt(df, country, year, column) ==
  LET at == {i \in DOMAIN df.rows :
               df.rows[i].Country = country /\ df.rows[i].Year = year}
  IN  IF at = {} THEN "none"
      ELSE <<Cell(df.rows[CHOOSE i \in at : TRUE], column)>>

\* C16: calculate_growth_rates on a column of a table with rows returns one
\* row per country; for each period P the growth of a country is value at
\* the latest year over value at P years before, less 1, times 100, when
\* the country has a row in both years, and a missing value when it has no
\* row P years before the latest year or none at the latest year.
C16_GrowthPerCountry ==
  (/\ aggOut.op = "calculate_growth_rates"
   /\ aggDf.rows # <<>>
   /\ aggColumn \in aggDf.cols)
    => LET latestYear == CHOOSE y \in YearsOf(aggDf) : \A z \in YearsOf(aggDf) : z <= y
           out == aggOut.out
           Expected(c, P) ==
             LET now == ValueAt(aggDf, c, latestYear, aggColumn)
                 then == ValueAt(aggDf, c, latestYear - P, aggColumn)
             IN  IF now = "none" \/ then = "none" THEN NaN
                 ELSE IF IsNaN(now[1]) \/ IsNaN(then[1]) THEN NaN
                 ELSE <<Val(now[1]), Val(then[1])>>
       IN  /\ out.exc = "none"
           /\ {out.value.rows[i].Country : i \in DOMAIN out.value.rows}
                = {aggDf.rows[i].Country : i \in DOMAIN aggDf.rows}
           /\ \A i \in DOMAIN out.value.rows :
                 \A k \in DOMAIN aggOut.periods :
                    out.value.rows[i].growth[k]
                      = Expected(out.value.rows[i].Country, aggOut.periods[k])

(* ====================== properties of the metrics ===================== *)
\* The sum of the column over all the rows of the year, missing cells
\* adding nothing.
SumOfYear(df, column, year) ==
  SumOver(df.rows, {i \in DOMAIN df.rows : df.rows[i].Year = year}, column)
\* The call named the column of a table that has it and a Year column.
OnColumn == "Year" \in aggDf.cols /\ aggColumn \in aggDf.cols

\* C17: calculate_percent_change with a year1 sum of exactly 0 (no row of
\* year1 at all included) returns +infinity when the year2 sum is positive,
\* -infinity when it is negative and exactly 0 when it is 0 too.
C17_ZeroBase ==
  (/\ aggOut.op = "calculate_percent_change"
   /\ OnColumn
   /\ SumOfYear(aggDf, aggColumn, aggOut.year1) = 0)
    => LET sum2 == SumOfYear(aggDf, aggColumn, aggOut.year2)
       IN  /\ aggOut.out.exc = "none"
           /\ sum2 > 0 => aggOut.out.value = PlusInf
           /\ sum2 < 0 => aggOut.out.value = MinusInf
           /\ sum2 = 0 => aggOut.out.value = Ratio(0, 1)

C17_Witness ==
  /\ aggOut.op = "calculate_percent_change"
  /\ aggOut.year1 = 2000 /\ aggOut.year2 = 2010
  /\ aggDf.rows # <<>>
  /\ \A i \in DOMAIN aggDf.rows : aggDf.rows[i].Year = 2010
  /\ SumOfYear(aggDf, aggColumn, 2010) < 0
  /\ aggOut.out.value = MinusInf

\* C18: calculate_percent_change with a year1 sum other than 0 returns
\* (year2 sum - year1 sum) / year1 sum * 100, each sum taken over the rows
\* of all countries in that year.
C18_PercentChange ==
  (/\ aggOut.op = "calculate_percent_change"
   /\ OnColumn
   /\ SumOfYear(aggDf, aggColumn, aggOut.year1) # 0)
    => LET sum1 == SumOfYear(aggDf, aggColumn, aggOut.year1)
           sum2 == SumOfYear(aggDf, aggColumn, aggOut.year2)
           res == aggOut.out.value
       IN  /\ aggOut.out.exc = "none"
           /\ res.k = "ratio"
           /\ res.n * sum1 = (sum2 - sum1) * 100 * res.d

\* 100 in 2000 and 150 in 2010 give 50.
C18_Witness ==
  /\ aggOut.op = "calculate_percent_change"
  /\ aggOut.year1 = 2000 /\ aggOut.year2 = 2010
  /\ aggDf.rows = << [Country |-> "A", Year |-> 2000, Total |-> Num(100)],
                     [Country |-> "A", Year |-> 2010, Total |-> Num(150)] >>
  /\ aggOut.out.value.k = "ratio"
  /\ aggOut.out.value.n = 50 * aggOut.out.value.d

MeanIs(rows, column, lo, i, x) ==
  LET seen == {j \in lo..i : ~IsNaN(Cell(rows[j], column))}
  IN  IF seen = {} THEN x = NotANumber
      ELSE x.k = "ratio" /\ x.d # 0
           /\ x.n * Cardinality(seen) = SumOver(rows, seen, column) * x.d
\* The rows are in ascending Year order and are the rows of the table.
SortedByYear(rows, df) ==
  /\ Len(rows) = Len(df.rows)
  /\ Range(rows) = Range(df.rows)
  /\ \A i, j \in DOMAIN rows : i < j => rows[i].Year <= rows[j].Year

\* C20 as stated: calculate_moving_average sorts by Year ascending, the
\* i-th point is the mean of the last min(i, window) values up to the i-th,
\* and no point is missing.
C20_NoPointMissing ==
  (aggOut.op = "calculate_moving_average" /\ OnColumn)
    => LET res == aggOut.out.value
       IN  /\ aggOut.out.exc = "none"
           /\ SortedByYear(res.rows, aggDf)
           /\ \A i \in DOMAIN res.mean :
                 /\ res.mean[i] # NotANumber
                 /\ MeanIs(res.rows, aggColumn,
                           IF i <= aggOut.window THEN 1 ELSE i - aggOut.window + 1,
                           i, res.mean[i])

\* C20 amended: the i-th point is the mean of the values present among the
\* last min(i, window) cells, and is missing only when all of them are
\* missing; on a series without missing values no point is missing, and on
\* a constant one every point equals the constant.
C20_MovingAverage ==
  (aggOut.op = "calculate_moving_average" /\ OnColumn)
    => LET res == aggOut.out.value
           Full == \A j \in DOMAIN aggDf.rows : ~IsNaN(Cell(aggDf.rows[j], aggColumn))
       IN  /\ aggOut.out.exc = "none"
           /\ SortedByYear(res.rows, aggDf)
           /\ \A i \in DOMAIN res.mean :
                 /\ MeanIs(res.rows, aggColumn,
                           IF i <= aggOut.window THEN 1 ELSE i - aggOut.window + 1,
                           i, res.mean[i])
                 /\ Full => res.mean[i] # NotANumber
                 /\ \A c \in {-100, 100, 150} :
                       (\A j \in DOMAIN aggDf.rows :
                           Cell(aggDf.rows[j], aggColumn) = Num(c))
                         => res.mean[i].n = c * res.mean[i].d

C20_Witness ==
  /\ aggOut.op = "calculate_moving_average"
  /\ aggOut.window = 2
  /\ Len(aggDf.rows) = 3
  /\ aggDf.rows[1].Year = 2010 /\ aggDf.rows[1].Total = Num(150)
  /\ aggDf.rows[2].Year = 2000 /\ aggDf.rows[2].Total = Num(100)
  /\ aggDf.rows[3].Year = 2010 /\ aggDf.rows[3].Total = Num(-100)
  /\ aggOut.out.exc = "none"
  /\ aggOut.out.value.rows[1] = aggDf.rows[2]
  /\ aggOut.out.value.rows[3] = aggDf.rows[3]
  /\ aggOut.out.value.mean = <<Ratio(100, 1), Ratio(250, 2), Ratio(50, 2)>>

(* ============ properties of calculate_emission_intensity ============== *)
\* C21: calculate_emission_intensity returns one value per row: source /
\* total * 100 when both are present and the total is not zero, and 0 when
\* the total is zero or either value is missing; no value is an infinity or
\* NaN.
C21_Intensity ==
  (aggOut.op = "calculate_emission_intensity" /\ aggDf.cols # {})
    => LET res == aggOut.out.value
       IN  /\ aggOut.out.exc = "none"
           /\ Len(res) = Len(aggDf.rows)
           /\ \A i \in DOMAIN res :
                LET source == aggDf.rows[i].Gas
                    total == aggDf.rows[i].Total
                IN  /\ res[i].k = "ratio" /\ res[i].d # 0
                    /\ IF IsNaN(source) \/ IsNaN(total) \/ total = Num(0)
                       THEN res[i].n = 0
                       ELSE res[i].n * Val(total) = Val(source) * 100 * res[i].d

C21_Witness ==
  /\ aggOut.op = "calculate_emission_intensity"
  /\ Len(aggDf.rows) = 2
  /\ aggDf.rows[1].Gas = Num(1) /\ aggDf.rows[1].Total = Num(0)
  /\ aggDf.rows[2].Gas = Num(1) /\ aggDf.rows[2].Total = Num(2)
  /\ aggOut.out.value = <<Ratio(0, 1), Ratio(100, 2)>>

(* ============= properties of calculate_top_contributors =============== *)
\* The rows of the table that qualify: those of the year whose value is at
\* least min_value (all rows of the year when no min_value is given).
Qualifying ==
  {i \in DOMAIN aggDf.rows :
     /\ aggDf.rows[i].Year = aggOut.year
     /\ \/ aggOut.min_value = NoMin
        \/ /\ ~IsNaN(Cell(aggDf.rows[i], aggColumn))
           /\ Val(Cell(aggDf.rows[i], aggColumn)) >= Val(aggOut.min_value)}
QualifyingTotal == SumOver(aggDf.rows, Qualifying, aggColumn)
\* The sum of a sequence of Percentage values as a fraction <<n, d>>, missing
\* values skipped.
RECURSIVE PercentageSum(_)
PercentageSum(res) ==
  IF res = <<>> THEN <<0, 1>>
  ELSE LET rest == PercentageSum(Tail(res))
           p == res[1].Percentage
       IN  IF p.k # "ratio" THEN rest
           ELSE <<p.n * rest[2] + rest[1] * p.d, p.d * rest[2]>>
TopContributorsCall ==
  /\ aggOut # NoAggOut
  /\ aggOut.op = "calculate_top_contributors"
  /\ OnColumn

\* C22 as stated: for every table, year, n and min_value the Percentage
\* values returned by calculate_top_contributors sum to at most 100 when n
\* is smaller than the number of qualifying rows and to exactly 100
\* otherwise.
C22_EveryTable ==
  TopContributorsCall
    => /\ aggOut.out.exc = "none"
       /\ LET S == PercentageSum(aggOut.out.value)
          IN  /\ S[2] > 0
              /\ IF aggOut.n < Cardinality(Qualifying)
                 THEN S[1] <= 100 * S[2]
                 ELSE S[1] = 100 * S[2]

\* C22 amended: when the qualifying rows sum to more than 0, the Percentage
\* values sum to exactly 100 when n is at least the number of qualifying
\* rows, and to at most 100 when n is smaller and no qualifying value is
\* negative; when the qualifying rows sum to 0 or less (no qualifying row
\* included) every Percentage is 0.
C22_PercentageSum ==
  TopContributorsCall
    => /\ aggOut.out.exc = "none"
       /\ LET S == PercentageSum(aggOut.out.value)
              res == aggOut.out.value
          IN  IF QualifyingTotal > 0
              THEN /\ S[2] > 0
                   /\ aggOut.n >= Cardinality(Qualifying) => S[1] = 100 * S[2]
                   /\ (/\ aggOut.n < Cardinality(Qualifying)
                       /\ \A i \in Qualifying :
                             LET c == Cell(aggDf.rows[i], aggColumn)
                             IN  IsNaN(c) \/ Val(c) >= 0)
                        => S[1] <= 100 * S[2]
              ELSE \A i \in DOMAIN res : res[i].Percentage = Ratio(0, 1)

C22_Witness ==
  /\ TopContributorsCall
  /\ aggOut.n = 1
  /\ aggOut.min_value = NoMin
  /\ Cardinality(Qualifying) = 2
  /\ QualifyingTotal = 250
  /\ Len(aggOut.out.value) = 1
  /\ aggOut.out.value[1].row.Total = Num(150)
  /\ aggOut.out.value[1].Percentage = Ratio(15000, 250)

C24_ImmediateReduction ==
  (/\ aggOut # NoAggOut
   /\ aggOut.op = "calculate_reduction_needed"
   /\ OnColumn
   /\ aggOut.target_year <= aggOut.current_year)
    => /\ aggOut.out.exc = "none"
       /\ LET res == aggOut.out.value
              current == SumOfYear(aggDf, aggColumn, aggOut.current_year)
          IN  /\ res.annual_reduction = res.absolute_reduction
              /\ res.absolute_reduction.k = "ratio"
              /\ res.absolute_reduction.d # 0
              /\ res.absolute_reduction.n * 100
                   = current * aggOut.target_reduction_pct * res.absolute_reduction.d
              /\ res.annual_reduction_pct = Ratio(aggOut.target_reduction_pct, 1)

\* Current emissions 100, both years 2020, target 50%.
C24_Witness ==
  /\ aggOut # NoAggOut
  /\ aggOut.op = "calculate_reduction_needed"
  /\ aggOut.current_year = 2020
  /\ aggOut.target_year = 2020
  /\ aggOut.target_reduction_pct = 50
  /\ SumOfYear(aggDf, aggColumn, 2020) = 100
  /\ aggOut.out.exc = "none"
  /\ aggOut.out.value.annual_reduction = Ratio(5000, 100)
  /\ aggOut.out.value.annual_reduction_pct = Ratio(50, 1)

(* ================== properties of the caller's table ================== *)
\* C25 as stated: no aggregator, metrics or chart-building call adds,
\* removes or changes a column or row of the table it is given.
C25_TablesImmutable == [][aggDf' = aggDf]_vars

RECURSIVE ValueSum(_)
ValueSum(rows) ==
  IF rows = <<>> THEN 0 ELSE rows[1].value + ValueSum(Tail(rows))

\* C27: no ISO3 code is in the code lists of two regions of REGIONS, and in
\* aggregate_by_region every row is counted in at most one region: the
\* values returned add up to the sum of the column over the rows whose code
\* is in some list.
C27_OneRegionPerCode ==
  /\ \A k, m \in DOMAIN REGIONS :
        k # m => REGIONS[k].codes \cap REGIONS[m].codes = {}
  /\ (aggOut.op = "aggregate_by_region" /\ aggColumn \in aggDf.cols)
       => LET rows == RowsOfYear(aggDf, aggOut.year)
              out == aggOut.out
          IN  /\ out.exc = "none"
              /\ \A i \in DOMAIN rows :
                    Cardinality({g \in RegionNames : i \in Members(rows, g)}) <= 1
              /\ ValueSum(out.value.rows)
                   = SumOver(rows, UNION {Members(rows, g) : g \in RegionNames},
                             aggColumn)

\* Rows of two regions and a row of none, each with a value.
C27_Witness ==
  /\ aggOut.op = "aggregate_by_region"
  /\ aggColumn = "Total"
  /\ aggOut.year = 2000
  /\ {r.Country : r \in {aggDf.rows[i] : i \in {j \in DOMAIN aggDf.rows :
                            aggDf.rows[j].Year = 2000 /\ aggDf.rows[j].Total = Num(1)}}}
       = RegionCountries
  /\ aggOut.out.exc = "none"
  /\ ValueSum(aggOut.out.value.rows) = 2

(* ================= properties of the sidebar widgets ================== *)
\* C28 as stated: for every table with at least one row and every user
\* choice, add_year_range_selector hands each slider a default within that
\* slider's bounds, both sliders are created, and the returned pair
\* satisfies min_year <= start_year <= end_year <= max_year.
C28_DefaultsInBounds ==
  (aggOut.op = "add_year_range_selector" /\ aggDf.year # <<>>)
    => /\ \A i \in DOMAIN aggOut.widgets :
             /\ aggOut.widgets[i].min_value <= aggOut.widgets[i].value
             /\ aggOut.widgets[i].value <= aggOut.widgets[i].max_value
       /\ Len(aggOut.widgets) = 2
       /\ aggOut.widgets[1].min_value = SeqMin(aggDf.year)
       /\ aggOut.widgets[1].max_value = SeqMax(aggDf.year)
       /\ aggOut.out.exc = "none"
       /\ aggOut.widgets[2].min_value = aggOut.out.value[1]
       /\ aggOut.widgets[2].max_value = SeqMax(aggDf.year)
       /\ SeqMin(aggDf.year) <= aggOut.out.value[1]
       /\ aggOut.out.value[1] <= aggOut.out.value[2]
       /\ aggOut.out.value[2] <= SeqMax(aggDf.year)

\* C29: on a table with rows add_year_selector hands the selectbox the
\* distinct years in ascending order and an index that is valid for them;
\* the year at that index is the requested default when it is in the data,
\* else the smallest year of the data above the default, else the latest
\* year.
C29_Preselect ==
  (aggOut.op = "add_year_selector" /\ aggDf.year # <<>>)
    => /\ aggOut.out.exc = "none"
       /\ Len(aggOut.widgets) = 1
       /\ LET years == aggOut.widgets[1].options
              index == aggOut.widgets[1].index
              default == aggOut.widgets[1].default
              data == Range(aggDf.year)
              above == {y \in data : y > default}
          IN  /\ Range(years) = data
              /\ \A i, j \in DOMAIN years : i < j => years[i] < years[j]
              /\ 0 <= index /\ index < Len(years)
              /\ default # NoYear =>
                   years[index + 1] =
                     IF default \in data THEN default
                     ELSE IF above # {}
                     THEN CHOOSE y \in above : \A z \in above : y <= z
                     ELSE CHOOSE y \in data : \A z \in data : z <= y

\* The default 1990 is not in the data, 2021 is the smallest year above it.
C29_Witness ==
  /\ aggOut.op = "add_year_selector"
  /\ aggDf.year = <<DEFAULT_END_YEAR, DEFAULT_START_YEAR - 1>>
  /\ aggOut.widgets[1].default = DEFAULT_START_YEAR
  /\ aggOut.widgets[1].options = <<DEFAULT_START_YEAR - 1, DEFAULT_END_YEAR>>
  /\ aggOut.widgets[1].index = 1
  /\ aggOut.out.exc = "none"

(* ================== properties of the country filter ================== *)
\* C30: add_multi_country_selector never returns more than max_selections
\* countries: a longer selection is cut to its first max_selections entries
\* in selection order and exactly one warning is shown; a selection of
\* max_selections or fewer is returned unchanged with no warning.
C30_MaxSelections ==
  (aggOut.op = "add_multi_country_selector" /\ "Country" \in aggDf.cols)
    => LET out == aggOut.out
           selected == aggOut.selected
           max_selections == aggOut.max_selections
       IN  /\ out.exc = "none"
           /\ Len(out.value) <= max_selections
           /\ IF Len(selected) > max_selections
              THEN /\ out.value = [i \in 1..max_selections |-> selected[i]]
                   /\ Len(out.msgs) = 1
                   /\ out.msgs[1].level = "warning"
              ELSE /\ out.value = selected
                   /\ out.msgs = <<>>

\* Three countries selected against a maximum of two.
C30_Witness ==
  /\ aggOut.op = "add_multi_country_selector"
  /\ aggOut.max_selections = 2
  /\ aggOut.selected = <<"Japan", "China", "India">>
  /\ aggOut.out.value = <<"Japan", "China">>
  /\ Len(aggOut.out.msgs) = 1

====
